---------------------------- MODULE Spec2Model ----------------------------
(***************************************************************************)
(* A model of generate.py: the four-strategy schedule extraction cascade   *)
(* (table, vevent micro-format, plain text, raw wikitext), the team and    *)
(* phase normalisation it rests on, and the post-processing of main().     *)
(*                                                                         *)
(* Text is modelled at character level: a Python str is a TLA+ string, and *)
(* every regular expression of the source is written out as a scan over    *)
(* the characters.  The parsed views of a page (the wikitable rows, the    *)
(* vevent summary rows, the rendered text lines) stand for what            *)
(* BeautifulSoup hands to the code.  Characters are ASCII: the en dash of  *)
(* the score pattern is represented by "-".                                *)
(***************************************************************************)
EXTENDS Integers, Sequences, FiniteSets, TLC

(***************************************************************************)
(* Characters and generic string helpers (Python str methods and the       *)
(* character classes of the re module).                                    *)
(***************************************************************************)
\* s[i-1:i]: the character at position i (from 1), "" outside the string
Ch(s, i) == IF i >= 1 /\ i <= Len(s) THEN SubSeq(s, i, i) ELSE ""

UpperStr == "ABCDEFGHIJKLMNOPQRSTUVWXYZ"
LowerStr == "abcdefghijklmnopqrstuvwxyz"
DigitStr == "0123456789"

UpperCase == {Ch(UpperStr, i) : i \in 1..Len(UpperStr)}
LowerCase == {Ch(LowerStr, i) : i \in 1..Len(LowerStr)}
Digits    == {Ch(DigitStr, i) : i \in 1..Len(DigitStr)}
Letters   == UpperCase \cup LowerCase
WordChars == Letters \cup Digits \cup {"_"}
Spaces    == {" "}

\* str.lower() on one character
LowerCh(c) ==
    IF c \in UpperCase
    THEN Ch(LowerStr, CHOOSE i \in 1..Len(UpperStr) : Ch(UpperStr, i) = c)
    ELSE c

\* str.lower() of s[a-1:b], by halves
RECURSIVE LowerRange(_, _, _)
LowerRange(s, a, b) ==
    IF a > b THEN ""
    ELSE IF a = b THEN LowerCh(Ch(s, a))
    ELSE LowerRange(s, a, (a + b) \div 2) \o LowerRange(s, (a + b) \div 2 + 1, b)

\* str.lower()
Lower(s) == LowerRange(s, 1, Len(s))

\* the least position of a set of positions, 0 for the empty set
FirstOf(S) == IF S = {} THEN 0 ELSE CHOOSE m \in S : \A x \in S : m <= x

\* s[i-1:].startswith(p), positions counted from 1
MatchAt(s, p, i) ==
    /\ i >= 1
    /\ i + Len(p) - 1 <= Len(s)
    /\ SubSeq(s, i, i + Len(p) - 1) = p

StartsWith(s, p) == MatchAt(s, p, 1)

\* str.find(p, i - 1) counted from 1; 0 when p does not occur from i on
FindFrom(s, p, i) ==
    FirstOf({j \in i..(Len(s) - Len(p) + 1) : MatchAt(s, p, j)})

\* str.find(p) counted from 1; 0 when p does not occur (Python's -1)
Find(s, p) == FindFrom(s, p, 1)

\* p in s
Contains(s, p) == Find(s, p) # 0

\* the number of consecutive characters of s from position i that are in cls
Span(s, i, cls) ==
    IF Ch(s, i) \notin cls THEN 0
    ELSE (CHOOSE j \in (i + 1)..(Len(s) + 1) :
            /\ Ch(s, j) \notin cls
            /\ \A k \in (i + 1)..(j - 1) : Ch(s, k) \in cls) - i

\* the number of consecutive characters of s from position i that are not in cls
SpanNot(s, i, cls) ==
    IF i < 1 \/ i > Len(s) \/ Ch(s, i) \in cls THEN 0
    ELSE (CHOOSE j \in (i + 1)..(Len(s) + 1) :
            /\ j > Len(s) \/ Ch(s, j) \in cls
            /\ \A k \in (i + 1)..(j - 1) : Ch(s, k) \notin cls) - i

\* \b of the re module between positions i-1 and i
IsWordAt(s, i) == i >= 1 /\ i <= Len(s) /\ Ch(s, i) \in WordChars
WordBoundary(s, i) == IsWordAt(s, i - 1) # IsWordAt(s, i)

\* int() of a string of decimal digits
RECURSIVE ToIntFrom(_, _, _)
ToIntFrom(s, i, acc) ==
    IF i > Len(s) THEN acc
    ELSE ToIntFrom(s, i + 1,
                   acc * 10 + ((CHOOSE k \in 1..Len(DigitStr) : Ch(DigitStr, k) = Ch(s, i)) - 1))

ToInt(s) == ToIntFrom(s, 1, 0)

\* str.strip() for the blank
RECURSIVE LStrip(_)
LStrip(s) ==
    IF Len(s) > 0 /\ Ch(s, 1) \in Spaces THEN LStrip(SubSeq(s, 2, Len(s))) ELSE s

RECURSIVE RStrip(_)
RStrip(s) ==
    IF Len(s) > 0 /\ Ch(s, Len(s)) \in Spaces
    THEN RStrip(SubSeq(s, 1, Len(s) - 1)) ELSE s

Strip(s) == RStrip(LStrip(s))

\* re.sub(r"\s+", " ", s)
RECURSIVE CollapseSpacesFrom(_, _)
CollapseSpacesFrom(s, i) ==
    IF i > Len(s) THEN ""
    ELSE IF Ch(s, i) \in Spaces
         THEN " " \o CollapseSpacesFrom(s, i + Span(s, i, Spaces))
         ELSE Ch(s, i) \o CollapseSpacesFrom(s, i + 1)

CollapseSpaces(s) == CollapseSpacesFrom(s, 1)

\* re.sub(r"\[.*?\]", "", s): every "[" up to the nearest following "]"
RECURSIVE RemoveBracketedFrom(_, _)
RemoveBracketedFrom(s, i) ==
    IF i > Len(s) THEN ""
    ELSE IF Ch(s, i) = "[" /\ FindFrom(s, "]", i + 1) # 0
         THEN RemoveBracketedFrom(s, FindFrom(s, "]", i + 1) + 1)
         ELSE Ch(s, i) \o RemoveBracketedFrom(s, i + 1)

RemoveBracketed(s) == RemoveBracketedFrom(s, 1)

\* " ".join(texts)
RECURSIVE JoinFrom(_, _)
JoinFrom(texts, i) ==
    IF i > Len(texts) THEN ""
    ELSE IF i = Len(texts) THEN texts[i]
    ELSE texts[i] \o " " \o JoinFrom(texts, i + 1)

Join(texts) == JoinFrom(texts, 1)

\* Optional[T]: None is the empty tuple, a value x is <<x>>
None == <<>>
Some(x) == <<x>>

(***************************************************************************)
(* The lookup tables of the program.                                       *)
(***************************************************************************)
YEAR == 2026

TEAM_CZ == "CZE"

\* TEAM_CODE_ALIASES, in the order of the dict literal
TEAM_CODE_ALIASES ==
    << <<"Czech Republic", "CZE">>,
       <<"Czechia", "CZE">>,
       <<"Czech Republic (CZE)", "CZE">>,
       <<"Finland", "FIN">>,
       <<"Sweden", "SWE">>,
       <<"United States", "USA">>,
       <<"United States of America", "USA">>,
       <<"Canada", "CAN">>,
       <<"Switzerland", "SUI">>,
       <<"Germany", "GER">>,
       <<"Slovakia", "SVK">>,
       <<"Latvia", "LAT">>,
       <<"Denmark", "DEN">>,
       <<"Norway", "NOR">>,
       <<"Austria", "AUT">>,
       <<"France", "FRA">>,
       <<"Italy", "ITA">>,
       <<"Japan", "JPN">>,
       <<"China", "CHN">>,
       <<"South Korea", "KOR">> >>

\* TEAM_ALIAS_LOOKUP = {k.lower(): v}, as the sequence of its items
TEAM_ALIAS_LOOKUP ==
    [i \in 1..Len(TEAM_CODE_ALIASES) |->
        <<Lower(TEAM_CODE_ALIASES[i][1]), TEAM_CODE_ALIASES[i][2]>>]

\* the codes the alias table knows
AliasCodes == {TEAM_CODE_ALIASES[i][2] : i \in 1..Len(TEAM_CODE_ALIASES)}

\* TEAM_ALIAS_LOOKUP.get(key): the code, or None
AliasGet(key) ==
    IF \E i \in 1..Len(TEAM_ALIAS_LOOKUP) : TEAM_ALIAS_LOOKUP[i][1] = key
    THEN Some(TEAM_ALIAS_LOOKUP[CHOOSE i \in 1..Len(TEAM_ALIAS_LOOKUP) :
                                    TEAM_ALIAS_LOOKUP[i][1] = key][2])
    ELSE None

PHASE_CZ(phase_key) ==
    CASE phase_key = "preliminary"   -> "Skupina"
      [] phase_key = "quarterfinals" -> "Ctvrtfinale"
      [] phase_key = "semifinals"    -> "Semifinale"
      [] phase_key = "bronze"        -> "O bronz"
      [] phase_key = "gold"          -> "Finale"
      [] OTHER                       -> "Skupina"

PLAYOFF_PHASES == {"quarterfinals", "semifinals", "bronze", "gold"}

PhaseKeys == {"preliminary"} \cup PLAYOFF_PHASES

(***************************************************************************)
(* normalize_team_name                                                     *)
(***************************************************************************)
\* \b([A-Z]{3})\b anchored at i
UpperTokenAt(s, i) ==
    /\ WordBoundary(s, i)
    /\ Span(s, i, UpperCase) >= 3
    /\ WordBoundary(s, i + 3)

\* re.search(r"\b([A-Z]{3})\b", s): the position of the leftmost match, or 0
UpperToken(s) == FirstOf({i \in 1..Len(s) : UpperTokenAt(s, i)})

\* a wrong variant of NormalizeCleaned that hands back the text of a name the
\* alias table does not know
NormalizeCleanedKeepsText(cleaned) ==
    IF cleaned = "" THEN "TBD"
    ELSE IF AliasGet(Lower(cleaned)) # None THEN AliasGet(Lower(cleaned))[1]
    ELSE cleaned

\* the alias lookup and the token search on the cleaned name (lines 197-205)
NormalizeCleaned(cleaned) ==
    IF cleaned = "" THEN "TBD"
    ELSE IF AliasGet(Lower(cleaned)) # None THEN AliasGet(Lower(cleaned))[1]
    ELSE IF UpperToken(cleaned) # 0
    THEN SubSeq(cleaned, UpperToken(cleaned), UpperToken(cleaned) + 2)
    ELSE "TBD"

normalize_team_name(name) ==
    IF name = "" THEN "TBD"
    ELSE NormalizeCleaned(Strip(CollapseSpaces(RemoveBracketed(name))))

(***************************************************************************)
(* The token patterns of the strategies: time, date, score, group letter   *)
(* and flag template, each the regular expression of the source written as *)
(* a scan.  A search returns None or Some(the captured value).             *)
(***************************************************************************)
\* \d{n}:\d{2}\b at position i
TimeDigitsAt(s, i, n) ==
    /\ Span(s, i, Digits) >= n
    /\ Ch(s, i + n) = ":"
    /\ Span(s, i + n + 1, Digits) >= 2
    /\ WordBoundary(s, i + n + 3)

\* \b(\d{1,2}:\d{2})\b anchored at i: the number of digits of the hour, or 0
TimeAt(s, i) ==
    IF ~WordBoundary(s, i) THEN 0
    ELSE IF TimeDigitsAt(s, i, 2) THEN 2
    ELSE IF TimeDigitsAt(s, i, 1) THEN 1
    ELSE 0

\* the hour and minute of a time token at i whose hour has n digits
TimeValue(s, i, n) ==
    Some([hour   |-> ToInt(SubSeq(s, i, i + n - 1)),
          minute |-> ToInt(SubSeq(s, i + n + 1, i + n + 2))])

\* the time token at the position i of a leftmost match, None for i = 0
TimeFound(s, i) == IF i = 0 THEN None ELSE TimeValue(s, i, TimeAt(s, i))

\* re.search(r"\b(\d{1,2}:\d{2})\b", s), read as hour and minute
SearchTime(s) == TimeFound(s, FirstOf({i \in 1..Len(s) : TimeAt(s, i) # 0}))

\* \d{n}:\d{2} as the whole of s
FullMatchTimeDigits(s, n) ==
    IF /\ n \in {1, 2}
       /\ Ch(s, n + 1) = ":"
       /\ Span(s, n + 2, Digits) = 2
       /\ Len(s) = n + 3
    THEN TimeValue(s, 1, n)
    ELSE None

\* re.fullmatch(r"\d{1,2}:\d{2}", s)
FullMatchTime(s) == FullMatchTimeDigits(s, Span(s, 1, Digits))

\* the month names dateutil knows (full English names)
MonthNames ==
    << "january", "february", "march", "april", "may", "june", "july",
       "august", "september", "october", "november", "december" >>

MonthNumber(name) ==
    IF \E k \in 1..Len(MonthNames) : MonthNames[k] = Lower(name)
    THEN CHOOSE k \in 1..Len(MonthNames) : MonthNames[k] = Lower(name)
    ELSE 0

\* \d{4} at d closes a date that began at i: day s[i..a-1], word s[b..c-1]
DateYearAt(s, i, a, b, c, d) ==
    IF Span(s, d, Digits) >= 4
    THEN Some([day   |-> ToInt(SubSeq(s, i, a - 1)),
               word  |-> SubSeq(s, b, c - 1),
               year  |-> ToInt(SubSeq(s, d, d + 3)),
               first |-> i,
               last  |-> d + 3])
    ELSE None

\* \s+ at c, then the year
DateGapAt(s, i, a, b, c) ==
    IF Span(s, c, Spaces) >= 1
    THEN DateYearAt(s, i, a, b, c, c + Span(s, c, Spaces))
    ELSE None

\* [A-Za-z]+ at b, then the gap and the year
DateWordAt(s, i, a, b) ==
    IF Span(s, b, Letters) >= 1
    THEN DateGapAt(s, i, a, b, b + Span(s, b, Letters))
    ELSE None

\* \d{nd}\s+[A-Za-z]+\s+\d{4} anchored at i: the parts of the match, or None
DatePartsAt(s, i, nd) ==
    IF Span(s, i, Digits) >= nd /\ Span(s, i + nd, Spaces) >= 1
    THEN DateWordAt(s, i, i + nd, i + nd + Span(s, i + nd, Spaces))
    ELSE None

\* the same with \d{1,2}, tried greedily
DateAt(s, i) ==
    IF DatePartsAt(s, i, 2) # None THEN DatePartsAt(s, i, 2)
    ELSE DatePartsAt(s, i, 1)

\* dateparser.parse(text, dayfirst=True, fuzzy=True) of a matched
\* "day month-name year" text: the date, or None where the month word names no
\* month (what dateutil makes of such a text then depends on the day of the
\* run and is outside the model)
ParseDate(parts) ==
    IF MonthNumber(parts.word) # 0
    THEN Some([year |-> parts.year, month |-> MonthNumber(parts.word),
               day |-> parts.day])
    ELSE None

\* if dt.year == 1900: dt = dt.replace(year=YEAR)
FixYear(date) == IF date.year = 1900 THEN [date EXCEPT !.year = YEAR] ELSE date

\* the parse of a matched date as the strategies keep it: None, or the date
\* with the year rule applied
ParsedDate(m) ==
    IF ParseDate(m[1]) = None THEN None ELSE Some(FixYear(ParseDate(m[1])[1]))

\* whether the date match m found at i is one of \b(...20\d{2})\b
DateTextOk(s, i, m) ==
    /\ m # None
    /\ WordBoundary(s, i)
    /\ m[1].year \div 100 = 20
    /\ WordBoundary(s, m[1].last + 1)

\* the date match at the position i of a leftmost match, None for i = 0
DateFound(s, i) == IF i = 0 THEN None ELSE DateAt(s, i)

\* re.search(r"\b(\d{1,2}\s+[A-Za-z]+\s+20\d{2})\b", s): the text strategy
SearchDateText(s) ==
    DateFound(s, FirstOf({i \in 1..Len(s) : DateTextOk(s, i, DateAt(s, i))}))

DateVeventOk(m) == m # None /\ m[1].year = 2026

\* re.search(r"(\d{1,2}\s+[A-Za-z]+\s+2026)", s): the vevent strategy
SearchDateVevent(s) ==
    DateFound(s, FirstOf({i \in 1..Len(s) : DateVeventOk(DateAt(s, i))}))

DateWikitextOk(m) == m # None /\ m[1].word = "February" /\ m[1].year = 2026

\* re.search(r"(\d{1,2}\s+February\s+2026)", s): the wikitext strategy
SearchDateWikitext(s) ==
    DateFound(s, FirstOf({i \in 1..Len(s) : DateWikitextOk(DateAt(s, i))}))

DateCellOk(s, i, m) == m # None /\ WordBoundary(s, i) /\ ParseDate(m[1]) # None

\* dateparser.parse(raw_date, dayfirst=True, fuzzy=True) of a table cell: the
\* first "day month-name year" of the cell; None stands for the ValueError
DateCellFound(s, i) == IF i = 0 THEN None ELSE ParseDate(DateAt(s, i)[1])

ParseDateCell(s) ==
    DateCellFound(s, FirstOf({i \in 1..Len(s) : DateCellOk(s, i, DateAt(s, i))}))

\* (\d+) at c closes a score whose first number is s[i..i+d1-1]
ScoreSecondAt(s, i, d1, c) ==
    IF Span(s, c, Digits) = 0 THEN None
    ELSE Some(<<ToInt(SubSeq(s, i, i + d1 - 1)),
                ToInt(SubSeq(s, c, c + Span(s, c, Digits) - 1))>>)

\* [-]\s* at b, then the second number
ScoreDashAt(s, i, d1, b) ==
    IF Ch(s, b) # "-" THEN None
    ELSE ScoreSecondAt(s, i, d1, b + 1 + Span(s, b + 1, Spaces))

\* \s* after the d1 digits at i, then the dash
ScoreFirstAt(s, i, d1) ==
    IF d1 = 0 THEN None
    ELSE ScoreDashAt(s, i, d1, i + d1 + Span(s, i + d1, Spaces))

\* (\d+)\s*[-]\s*(\d+) anchored at i: Some of the two numbers, or None
ScoreAt(s, i) == ScoreFirstAt(s, i, Span(s, i, Digits))

ScoreFound(s, i) == IF i = 0 THEN None ELSE ScoreAt(s, i)

\* re.search(r"(\d+)\s*[-]\s*(\d+)", s): Some(<<int(group 1), int(group 2)>>)
\* or None
SearchScore(s) == ScoreFound(s, FirstOf({i \in 1..Len(s) : ScoreAt(s, i) # None}))

\* int(m_score.group(n)) if m_score else None
ScorePart(m_score, n) == IF m_score = None THEN None ELSE Some(m_score[1][n])

\* ([A-Z]) at k, after Group\s+ at i, with \b on both sides when bounded
GroupLetterAt(s, i, k, bounded) ==
    IF /\ Ch(s, k) \in UpperCase
       /\ (bounded => WordBoundary(s, i) /\ WordBoundary(s, k + 1))
    THEN Some(Ch(s, k))
    ELSE None

\* Group\s+([A-Z]) anchored at i
GroupAt(s, i, bounded) ==
    IF MatchAt(s, "Group", i) /\ Span(s, i + 5, Spaces) >= 1
    THEN GroupLetterAt(s, i, i + 5 + Span(s, i + 5, Spaces), bounded)
    ELSE None

GroupFound(s, i, bounded) == IF i = 0 THEN None ELSE GroupAt(s, i, bounded)

SearchGroupIn(s, bounded) ==
    GroupFound(s, FirstOf({i \in 1..Len(s) : GroupAt(s, i, bounded) # None}),
               bounded)

\* re.search(r"Group\s+([A-Z])", s): the letter, or None
SearchGroup(s) == SearchGroupIn(s, FALSE)

\* re.search(r"\bGroup\s+[A-Z]\b", s)
SearchGroupWord(s) == SearchGroupIn(s, TRUE)

\* f"Skupina {m.group(1)}"
GroupLabel(m_group) == Some("Skupina " \o m_group[1])

RECURSIVE TemplateArgsFrom(_, _, _)
RECURSIVE TemplateArgAt(_, _, _, _)

\* ([^}|]+) at a, after the prefix: n is the length of the run
TemplateArgAt(s, prefix, a, n) ==
    IF n = 0 THEN TemplateArgsFrom(s, prefix, a - Len(prefix) + 1)
    ELSE <<SubSeq(s, a, a + n - 1)>> \o TemplateArgsFrom(s, prefix, a + n)

\* [m.group(1) for m in re.finditer(prefix + r"([^}|]+)", s)] from position i
TemplateArgsFrom(s, prefix, i) ==
    IF FindFrom(s, prefix, i) = 0 THEN <<>>
    ELSE TemplateArgAt(s, prefix, FindFrom(s, prefix, i) + Len(prefix),
                       SpanNot(s, FindFrom(s, prefix, i) + Len(prefix), {"}", "|"}))

TemplateArgs(s, prefix) == TemplateArgsFrom(s, prefix, 1)

(***************************************************************************)
(* Game, and the start instant.  TZ.localize(datetime(y, m, d, H, M)) is   *)
(* the record of its five fields: every start is in the one zone           *)
(* Europe/Prague, so comparing starts is comparing these fields.           *)
(***************************************************************************)
Start(date, time) ==
    [year |-> date.year, month |-> date.month, day |-> date.day,
     hour |-> time.hour, minute |-> time.minute]

\* the sort key g.start: an integer that orders starts as datetime does
StartKey(start) ==
    ((((start.year - 1900) * 13 + start.month) * 32 + start.day) * 24
        + start.hour) * 60 + start.minute

\* Game(...) as the strategies construct it: gamecenter and playoff_index
\* keep their default None
Game(category, start, team1, team2, phase_key, group_label, venue, score1, score2, status_suffix) ==
    [category      |-> category,
     start         |-> start,
     team1         |-> team1,
     team2         |-> team2,
     phase_key     |-> phase_key,
     phase_label   |-> PHASE_CZ(phase_key),
     group_label   |-> group_label,
     venue         |-> venue,
     gamecenter    |-> None,
     score1        |-> score1,
     score2        |-> score2,
     status_suffix |-> status_suffix,
     playoff_index |-> None]

(***************************************************************************)
(* Strategy 1: the wikitable rows (parse_wikipedia_schedule, lines         *)
(* 248-351).  A table is [caption, header, rows]: the caption text ("" for *)
(* none), the texts of its th cells, and the cell texts of its td rows;    *)
(* the th cells are the first tr of the table, which the row loop passes   *)
(* like any other.  The loop state is [current_date, games].               *)
(***************************************************************************)
\* the first index whose header contains kw, or 0 (None)
FirstHeader(hs, kw) ==
    IF \E i \in 1..Len(hs) : Contains(hs[i], kw)
    THEN CHOOSE i \in 1..Len(hs) :
            /\ Contains(hs[i], kw)
            /\ \A j \in 1..(i - 1) : ~Contains(hs[j], kw)
    ELSE 0

\* the last index whose header contains kw1 or kw2, or 0 (None)
LastHeader(hs, kw1, kw2) ==
    IF \E i \in 1..Len(hs) : Contains(hs[i], kw1) \/ Contains(hs[i], kw2)
    THEN CHOOSE i \in 1..Len(hs) :
            /\ Contains(hs[i], kw1) \/ Contains(hs[i], kw2)
            /\ \A j \in (i + 1)..Len(hs) :
                  ~(Contains(hs[j], kw1) \/ Contains(hs[j], kw2))
    ELSE 0

\* header_texts (line 258)
HeaderTexts(header) == [i \in 1..Len(header) |-> Lower(header[i])]

\* date_idx, time_idx, venue_idx, team1_idx, team2_idx from header_texts
ColumnsOf(hs) ==
    [date  |-> FirstHeader(hs, "date"),
     time  |-> FirstHeader(hs, "time"),
     venue |-> FirstHeader(hs, "venue"),
     team1 |-> LastHeader(hs, "home", "team 1"),
     team2 |-> LastHeader(hs, "away", "team 2")]

TableColumns(header) == ColumnsOf(HeaderTexts(header))

\* texts[idx] if idx is not None and idx < len(texts) else ""
CellOr(texts, idx) == IF idx # 0 /\ idx <= Len(texts) THEN texts[idx] ELSE ""

\* the phase of a table row, from the lowered caption and row text
TablePhaseOf(t) ==
    IF Contains(t, "quarterfinal") THEN "quarterfinals"
    ELSE IF Contains(t, "semifinal") THEN "semifinals"
    ELSE IF Contains(t, "bronze") THEN "bronze"
    ELSE IF Contains(t, "gold") \/ Contains(t, "final") THEN "gold"
    ELSE "preliminary"

TablePhase(phase_text) == TablePhaseOf(Lower(phase_text))

\* the group label of a table row
TableGroup(phase_text) ==
    IF SearchGroup(phase_text) # None THEN GroupLabel(SearchGroup(phase_text))
    ELSE None

\* found.append(code) if code != "TBD" and code not in found
FoundAdd(found, code) ==
    IF code # "TBD" /\ \A k \in 1..Len(found) : found[k] # code
    THEN Append(found, code) ELSE found

\* found: the codes of the cells, each once, in cell order
RECURSIVE FoundCodes(_, _, _)
FoundCodes(texts, i, found) ==
    IF i > Len(texts) THEN found
    ELSE FoundCodes(texts, i + 1, FoundAdd(found, normalize_team_name(texts[i])))

\* normalize_team_name(texts[idx]) of a team column, "TBD" without one
TeamCell(texts, idx) ==
    IF idx # 0 /\ idx <= Len(texts) THEN normalize_team_name(texts[idx]) ELSE "TBD"

\* lines 329-336
TeamsOrFound(t1, t2, found) ==
    IF (t1 = "TBD" \/ t2 = "TBD") /\ Len(found) >= 2
    THEN <<found[1], found[2]>>
    ELSE <<t1, t2>>

\* team1, team2 of a table row
TableTeams(cols, texts) ==
    TeamsOrFound(TeamCell(texts, cols.team1), TeamCell(texts, cols.team2),
                 FoundCodes(texts, 1, <<>>))

\* dt of the date cell: None for an empty cell, a header word or a ValueError
RawDate(raw_date) ==
    IF raw_date = "" \/ Lower(Strip(raw_date)) \in {"date", "datum"} THEN None
    ELSE ParseDateCell(raw_date)

DateOr(dt, current_date) ==
    IF dt # None THEN Some(FixYear(dt[1])) ELSE current_date

\* a wrong variant of TableRowDate that forgets the date of the rows before
TableRowDateOwn(cols, current_date, texts) ==
    DateOr(RawDate(CellOr(texts, cols.date)), None)

\* the current date after a row
TableRowDate(cols, current_date, texts) ==
    DateOr(RawDate(CellOr(texts, cols.date)), current_date)

\* rows the loop passes over: no cell, no text, or the word "schedule"
TableRowSkipped(texts) ==
    \/ Len(texts) = 0
    \/ Join(texts) = ""
    \/ Contains(Lower(Join(texts)), "schedule")

\* raw_time or row_text
TimeText(raw_time, row_text) == IF raw_time # "" THEN raw_time ELSE row_text

\* venue (line 338)
TableVenue(cols, texts) ==
    IF cols.venue # 0 /\ cols.venue <= Len(texts)
    THEN Some(texts[cols.venue]) ELSE None

\* lines 299-351, once the row's date is in st.current_date
TableRowEmit(category, phase_text, cols, st, texts, time_match, teams) ==
    IF time_match = None \/ st.current_date = None THEN st
    ELSE [st EXCEPT !.games =
            Append(@, Game(category, Start(st.current_date[1], time_match[1]),
                           teams[1], teams[2],
                           TablePhase(phase_text), TableGroup(phase_text),
                           TableVenue(cols, texts), None, None, None))]

\* one pass of the row loop (lines 274-351)
TableRowStep(category, caption_text, cols, st, texts) ==
    IF TableRowSkipped(texts) THEN st
    ELSE TableRowEmit(category, caption_text \o " " \o Join(texts), cols,
                      [st EXCEPT !.current_date =
                          TableRowDate(cols, st.current_date, texts)],
                      texts,
                      SearchTime(TimeText(CellOr(texts, cols.time), Join(texts))),
                      TableTeams(cols, texts))

RECURSIVE TableRowsFrom(_, _, _, _, _, _)
TableRowsFrom(category, caption_text, cols, rows, i, st) ==
    IF i > Len(rows) THEN st
    ELSE TableRowsFrom(category, caption_text, cols, rows, i + 1,
                       TableRowStep(category, caption_text, cols, st, rows[i]))

\* the loop state at the head of a table: current_date = None (line 273)
TableStart(found) == [current_date |-> None, games |-> found]

\* the loop state after the header row of a table, its first tr
TableOpen(category, caption_text, header, found) ==
    IF header = <<>> THEN TableStart(found)
    ELSE TableRowStep(category, caption_text, TableColumns(header),
                      TableStart(found), header)

\* games after the rows of one table
TableGames(table, category, found) ==
    TableRowsFrom(category, table.caption, TableColumns(table.header),
                  table.rows, 1,
                  TableOpen(category, table.caption, table.header, found)).games

RECURSIVE TablesFrom(_, _, _, _)
TablesFrom(tables, i, category, found) ==
    IF i > Len(tables) THEN found
    ELSE TablesFrom(tables, i + 1, category, TableGames(tables[i], category, found))

\* the table strategy over the wikitables of a page
ParseTables(tables, category) == TablesFrom(tables, 1, category, <<>>)

(***************************************************************************)
(* Strategy 2: parse_wikipedia_vevents.  A summary row is                  *)
(* [heading, cells, href]: the nearest preceding h2/h3 (None, or its id    *)
(* and text), the texts of its td cells, and the href of the first anchor  *)
(* of the first cell ("" for none).                                        *)
(***************************************************************************)
\* infer_phase_from_heading on the lowered id and text of the heading
HeadingPhase(heading_id, heading_text) ==
    IF Contains(heading_id, "group_a") \/ Contains(heading_text, "group a")
    THEN <<"preliminary", Some("Skupina A")>>
    ELSE IF Contains(heading_id, "group_b") \/ Contains(heading_text, "group b")
    THEN <<"preliminary", Some("Skupina B")>>
    ELSE IF Contains(heading_id, "quarter") \/ Contains(heading_text, "quarter")
    THEN <<"quarterfinals", None>>
    ELSE IF Contains(heading_id, "semi") \/ Contains(heading_text, "semi")
    THEN <<"semifinals", None>>
    ELSE IF Contains(heading_id, "bronze") \/ Contains(heading_text, "bronze")
    THEN <<"bronze", None>>
    ELSE IF \/ Contains(heading_id, "gold") \/ Contains(heading_text, "gold")
            \/ Contains(heading_id, "final") \/ Contains(heading_text, "final")
    THEN <<"gold", None>>
    ELSE <<"preliminary", None>>

infer_phase_from_heading(heading) ==
    IF heading = None THEN <<"preliminary", None>>
    ELSE HeadingPhase(Lower(heading[1].id), Lower(heading[1].text))

\* anchor_key (lines 570-571)
AnchorKey(href) ==
    IF StartsWith(href, "#") THEN Lower(SubSeq(href, 2, Len(href))) ELSE ""

\* lines 567-590: the heading's phase and group, overridden by the anchor
AnchorPhase(anchor_key, anchor_text, heading) ==
    IF Contains(anchor_key, "group_a") \/ Contains(anchor_text, "group a")
    THEN <<"preliminary", Some("Skupina A")>>
    ELSE IF Contains(anchor_key, "group_b") \/ Contains(anchor_text, "group b")
    THEN <<"preliminary", Some("Skupina B")>>
    ELSE IF Contains(anchor_key, "quarter") THEN <<"quarterfinals", None>>
    ELSE IF Contains(anchor_key, "semi") THEN <<"semifinals", None>>
    ELSE IF Contains(anchor_key, "bronze") THEN <<"bronze", None>>
    ELSE IF Contains(anchor_key, "gold") \/ Contains(anchor_key, "final")
    THEN <<"gold", None>>
    ELSE infer_phase_from_heading(heading)

VeventPhase(row) == AnchorPhase(AnchorKey(row.href), Lower(row.cells[1]), row.heading)

\* the finish type of a score cell (lines 555-560), on its lowered text
VeventFinish(lowered) ==
    IF Contains(lowered, "gws") \/ Contains(lowered, "so") THEN Some("SO")
    ELSE IF Contains(lowered, "ot") THEN Some("OT")
    ELSE Some("FT")

\* status_suffix of a summary row (lines 549-560)
VeventStatus(center_text) ==
    IF SearchScore(center_text) = None THEN None
    ELSE VeventFinish(Lower(center_text))

\* venue (lines 562-565)
VeventVenue(cells) ==
    IF Len(cells) > 4 /\ cells[5] # "" THEN Some(cells[5]) ELSE None

\* lines 537-606, with the date and time matches of the first cell
VeventEmit(category, found, row, m_date, m_time, m_score, phase) ==
    IF m_date = None \/ m_time = None THEN found
    ELSE IF ParseDate(m_date[1]) = None THEN found
    ELSE Append(found,
                Game(category, Start(ParseDate(m_date[1])[1], m_time[1]),
                     normalize_team_name(row.cells[2]),
                     normalize_team_name(row.cells[4]),
                     phase[1], phase[2], VeventVenue(row.cells),
                     ScorePart(m_score, 1), ScorePart(m_score, 2),
                     VeventStatus(row.cells[3])))

\* one pass of the loop over the summary rows (lines 529-606)
VeventRowStep(category, found, row) ==
    IF Len(row.cells) < 4 THEN found
    ELSE VeventEmit(category, found, row,
                    SearchDateVevent(row.cells[1]), SearchTime(row.cells[1]),
                    SearchScore(row.cells[3]), VeventPhase(row))

RECURSIVE VeventsFrom(_, _, _, _)
VeventsFrom(rows, i, category, found) ==
    IF i > Len(rows) THEN found
    ELSE VeventsFrom(rows, i + 1, category, VeventRowStep(category, found, rows[i]))

\* the vevent strategy over the summary rows of a page
parse_wikipedia_vevents(rows, category) == VeventsFrom(rows, 1, category, <<>>)

(***************************************************************************)
(* Strategy 3: parse_wikipedia_schedule_text, over the non-empty rendered  *)
(* lines of the page, each already stripped and whitespace-collapsed.  The *)
(* loop state is [current_date, current_time, current_phase,               *)
(* current_group, games].                                                  *)
(***************************************************************************)
\* the place of e in a sorted list of <<key, value>> pairs: after the pairs
\* whose key is not greater
InsertAt(sorted, e, k) ==
    SubSeq(sorted, 1, k) \o <<e>> \o SubSeq(sorted, k + 1, Len(sorted))

InsertSorted(sorted, e) ==
    InsertAt(sorted, e, Cardinality({j \in 1..Len(sorted) : sorted[j][1] <= e[1]}))

\* sorted(pairs, key=lambda p: p[0]): a stable sort of <<key, value>> pairs
RECURSIVE StableSortFrom(_, _, _)
StableSortFrom(pairs, i, sorted) ==
    IF i > Len(pairs) THEN sorted
    ELSE StableSortFrom(pairs, i + 1, InsertSorted(sorted, pairs[i]))

StableSort(pairs) == StableSortFrom(pairs, 1, <<>>)

\* the second components of a sequence of pairs
Values(pairs) == [i \in 1..Len(pairs) |-> pairs[i][2]]

\* team_names: the alias keys, longest first, then "tbd" (lines 379-380)
TeamNames ==
    Values(StableSort([i \in 1..Len(TEAM_ALIAS_LOOKUP) |->
              <<0 - Len(TEAM_ALIAS_LOOKUP[i][1]), TEAM_ALIAS_LOOKUP[i][1]>>]))
    \o <<"tbd">>

\* venues (line 381)
TextVenues == <<"PalaItalia", "Fiera Milano", "PalaItalia Santa Giulia">>

\* the first venue of the list that is in the lowered text, or None
FirstVenueLower(venues, lower) ==
    IF \E i \in 1..Len(venues) : Contains(lower, Lower(venues[i]))
    THEN Some(venues[CHOOSE i \in 1..Len(venues) :
                        /\ Contains(lower, Lower(venues[i]))
                        /\ \A j \in 1..(i - 1) : ~Contains(lower, Lower(venues[j]))])
    ELSE None

\* the (idx, name) entry of one team name, if the lowered line contains it
PositionOf(lower, name) ==
    IF Find(lower, name) # 0 THEN << <<Find(lower, name), name>> >> ELSE <<>>

\* positions: (idx, name) of every team name the lowered line contains, in
\* the order of team_names
RECURSIVE TextPositions(_, _, _)
TextPositions(lower, names, i) ==
    IF i > Len(names) THEN <<>>
    ELSE PositionOf(lower, names[i]) \o TextPositions(lower, names, i + 1)

\* the state before the first line (lines 383-387)
TextStart ==
    [current_date |-> None, current_time |-> None,
     current_phase |-> "preliminary", current_group |-> None, games |-> <<>>]

\* line 455: whether the lowered line is taken as a game line
IsGameLine(lower, positions) ==
    Len(positions) >= 2 \/ Contains(lower, "tbd v tbd")

\* lines 456-462: the two teams, positions being sorted by idx
TeamsAt(lower, positions) ==
    IF Contains(lower, "tbd v tbd") THEN <<"TBD", "TBD">>
    ELSE <<normalize_team_name(positions[1][2]),
           normalize_team_name(positions[2][2])>>

\* lines 470-480: the venue of a game line; next_line is None after the last
VenueOr(venue, next_line) ==
    IF venue # None THEN venue
    ELSE IF next_line # None THEN FirstVenueLower(TextVenues, Lower(next_line[1]))
    ELSE None

TextVenue(lower, next_line) ==
    VenueOr(FirstVenueLower(TextVenues, lower), next_line)

\* lines 464-498: the game of a game line
TextGame(category, st, teams, m_score, venue) ==
    Game(category, Start(st.current_date[1], st.current_time[1]),
         teams[1], teams[2], st.current_phase, st.current_group, venue,
         ScorePart(m_score, 1), ScorePart(m_score, 2), None)

\* lines 448-499: a line that is no marker, with a date and a time set
TextCandidate(category, st, line, lower, positions, next_line) ==
    IF ~IsGameLine(lower, positions) THEN st
    ELSE [st EXCEPT !.games =
            Append(@, TextGame(category, st, TeamsAt(lower, StableSort(positions)),
                               SearchScore(line), TextVenue(lower, next_line)))]

\* lines 439-499: a line that is no marker
TextPlain(category, st, line, lower, next_line) ==
    IF st.current_date = None \/ st.current_time = None THEN st
    ELSE IF \/ Contains(lower, "attendance") \/ Contains(lower, "goalies")
            \/ Contains(lower, "referees") \/ Contains(lower, "linesmen")
    THEN st
    ELSE TextCandidate(category, st, line, lower,
                       TextPositions(lower, TeamNames, 1), next_line)

\* lines 421-437: the date and time markers
TextDateTime(category, st, line, lower, m_date, m_time, next_line) ==
    IF m_date # None THEN [st EXCEPT !.current_date = ParsedDate(m_date)]
    ELSE IF m_time # None THEN [st EXCEPT !.current_time = m_time]
    ELSE TextPlain(category, st, line, lower, next_line)

\* lines 393-419: the group and phase markers
TextMarkers(category, st, line, lower, next_line) ==
    IF SearchGroupWord(line) # None
    THEN [st EXCEPT !.current_group = GroupLabel(SearchGroup(line)),
                    !.current_phase = "preliminary"]
    ELSE IF Contains(lower, "quarter-finals") \/ Contains(lower, "quarterfinals")
    THEN [st EXCEPT !.current_phase = "quarterfinals", !.current_group = None]
    ELSE IF Contains(lower, "semi-finals") \/ Contains(lower, "semifinals")
    THEN [st EXCEPT !.current_phase = "semifinals", !.current_group = None]
    ELSE IF Contains(lower, "bronze")
    THEN [st EXCEPT !.current_phase = "bronze", !.current_group = None]
    ELSE IF Contains(lower, "gold") \/ Contains(lower, "final")
    THEN [st EXCEPT !.current_phase = "gold", !.current_group = None]
    ELSE TextDateTime(category, st, line, lower,
                      SearchDateText(line), FullMatchTime(line), next_line)

\* one pass of the while loop (lines 390-499); next_line is Some(lines[i + 1])
\* or None
TextLineStep(category, st, line, next_line) ==
    TextMarkers(category, st, line, Lower(line), next_line)

\* lines[i + 1] if i + 1 < len(lines)
NextLine(lines, i) == IF i + 1 <= Len(lines) THEN Some(lines[i + 1]) ELSE None

RECURSIVE TextLinesFrom(_, _, _, _)
TextLinesFrom(lines, i, category, st) ==
    IF i > Len(lines) THEN st
    ELSE TextLinesFrom(lines, i + 1, category,
                       TextLineStep(category, st, lines[i], NextLine(lines, i)))

\* the plain-text strategy over the rendered lines of a page
parse_wikipedia_schedule_text(lines, category) ==
    TextLinesFrom(lines, 1, category, TextStart).games

(***************************************************************************)
(* Strategy 4: parse_wikipedia_wikitext, over the lines of the raw markup. *)
(* The loop state is [current_phase, current_group, current_date,          *)
(* row_buffer, games].                                                     *)
(***************************************************************************)
\* update_context, the first if (lines 634-639)
UpdateGroup(st, line) ==
    IF /\ StartsWith(line, "===")
       /\ Contains(line, "Group ")
       /\ SearchGroup(line) # None
    THEN [st EXCEPT !.current_group = GroupLabel(SearchGroup(line)),
                    !.current_phase = "preliminary"]
    ELSE st

\* update_context, the second if (lines 640-652)
UpdatePhase(st, line) ==
    IF ~StartsWith(line, "==") THEN st
    ELSE IF Contains(line, "Quarter")
    THEN [st EXCEPT !.current_phase = "quarterfinals", !.current_group = None]
    ELSE IF Contains(line, "Semi")
    THEN [st EXCEPT !.current_phase = "semifinals", !.current_group = None]
    ELSE IF Contains(line, "Bronze")
    THEN [st EXCEPT !.current_phase = "bronze", !.current_group = None]
    ELSE IF Contains(line, "Gold") \/ Contains(line, "Final")
    THEN [st EXCEPT !.current_phase = "gold", !.current_group = None]
    ELSE st

\* update_context (lines 632-652)
update_context(st, line) == UpdatePhase(UpdateGroup(st, line), line)

\* teams.append(normalize_team_name(arg)), less the TBD ones (line 659)
TeamOf(arg) ==
    IF normalize_team_name(arg) # "TBD" THEN <<normalize_team_name(arg)>> ELSE <<>>

RECURSIVE NormalizedTeams(_, _)
NormalizedTeams(args, i) ==
    IF i > Len(args) THEN <<>>
    ELSE TeamOf(args[i]) \o NormalizedTeams(args, i + 1)

\* a wrong variant of FirstTwo that pairs a single team with TBD
FirstTwoPadded(teams) ==
    IF Len(teams) >= 2 THEN <<teams[1], teams[2]>>
    ELSE IF Len(teams) = 1 THEN <<teams[1], "TBD">>
    ELSE <<"TBD", "TBD">>

\* lines 660-662
FirstTwo(teams) ==
    IF Len(teams) >= 2 THEN <<teams[1], teams[2]>> ELSE <<"TBD", "TBD">>

\* extract_teams (lines 654-662)
extract_teams(row_text) ==
    FirstTwo(NormalizedTeams(TemplateArgs(row_text, "{{flag|")
                               \o TemplateArgs(row_text, "{{flagicon|")
                               \o TemplateArgs(row_text, "{{flagcountry|"), 1))

\* the venue list of the wikitext strategy (line 704)
WikitextVenues == <<"Fiera Milano", "PalaItalia", "PalaItalia Santa Giulia">>

\* the first venue of the list that is in the text, or None (lines 703-707)
FirstVenue(venues, text) ==
    IF \E i \in 1..Len(venues) : Contains(text, venues[i])
    THEN Some(venues[CHOOSE i \in 1..Len(venues) :
                        /\ Contains(text, venues[i])
                        /\ \A j \in 1..(i - 1) : ~Contains(text, venues[j])])
    ELSE None

\* status_suffix of a wikitext row (lines 691-701)
WikitextStatus(row_text) ==
    IF SearchScore(row_text) = None THEN None
    ELSE IF Contains(row_text, "SO") THEN Some("SO")
    ELSE IF Contains(row_text, "OT") THEN Some("OT")
    ELSE Some("FT")

\* the state before the first line (lines 627-630, 664)
WikitextStart ==
    [current_phase |-> "preliminary", current_group |-> None,
     current_date |-> None, row_buffer |-> <<>>, games |-> <<>>]

\* lines 670-677: the current date after the row row_text
DateAfter(current_date, m_date) ==
    IF m_date = None THEN current_date ELSE ParsedDate(m_date)

WikitextRowDate(current_date, row_text) ==
    DateAfter(current_date, SearchDateWikitext(row_text))

\* lines 690-723: the game of the row is appended
WikitextAppend(category, st, row_text, m_time, teams, m_score) ==
    [st EXCEPT !.games =
        Append(@, Game(category, Start(st.current_date[1], m_time[1]),
                       teams[1], teams[2],
                       st.current_phase, st.current_group,
                       FirstVenue(WikitextVenues, row_text),
                       ScorePart(m_score, 1), ScorePart(m_score, 2),
                       WikitextStatus(row_text)))]

\* a wrong variant of WikitextEmit that keeps a row of two unresolved teams
WikitextEmitKeepsUnresolved(category, st, row_text, m_time, teams, m_score) ==
    IF st.current_date = None \/ m_time = None THEN st
    ELSE WikitextAppend(category, st, row_text, m_time, teams, m_score)

\* lines 678-723, once the row's date is in st.current_date
WikitextEmit(category, st, row_text, m_time, teams, m_score) ==
    IF st.current_date = None \/ m_time = None THEN st
    ELSE IF teams[1] = "TBD" /\ teams[2] = "TBD" THEN st
    ELSE WikitextAppend(category, st, row_text, m_time, teams, m_score)

\* lines 668-723: a row separator closes the row held in the buffer
WikitextRow(category, st, row_text) ==
    WikitextEmit(category,
                 [st EXCEPT !.row_buffer = <<>>,
                            !.current_date = WikitextRowDate(@, row_text)],
                 row_text, SearchTime(row_text), extract_teams(row_text),
                 SearchScore(row_text))

\* lines 667-725, after update_context
WikitextLine(category, st, line) ==
    IF StartsWith(line, "|-") THEN WikitextRow(category, st, Join(st.row_buffer))
    ELSE [st EXCEPT !.row_buffer = Append(@, line)]

\* one pass of the loop over the lines (lines 665-725)
WikitextLineStep(category, st, line) ==
    WikitextLine(category, update_context(st, line), line)

RECURSIVE WikitextLinesFrom(_, _, _, _)
WikitextLinesFrom(lines, i, category, st) ==
    IF i > Len(lines) THEN st
    ELSE WikitextLinesFrom(lines, i + 1, category,
                           WikitextLineStep(category, st, lines[i]))

\* the loop of parse_wikipedia_wikitext over the lines of the markup
WikitextGames(lines, category) ==
    WikitextLinesFrom(lines, 1, category, WikitextStart).games

(***************************************************************************)
(* The calendar emitter: build_uid, build_summary, build_description and   *)
(* games_to_calendar.  The emoji of the source are written in ASCII: the   *)
(* gender icons as "[W]" and "[M]", the medals as "[bronze]" and "[gold]", *)
(* a flag as the two letters its regional-indicator symbols spell, in      *)
(* brackets, the hockey stick as "[hockey]", and the en dash as "-".  The  *)
(* Czech names are written without their diacritics.                       *)
(***************************************************************************)
\* str(n) of an integer n >= 0
RECURSIVE IntStr(_)
IntStr(n) ==
    IF n < 10 THEN Ch(DigitStr, n + 1)
    ELSE IntStr(n \div 10) \o Ch(DigitStr, (n % 10) + 1)

\* %m, %d, %H, %M of strftime: two digits
Pad2(n) == IF n < 10 THEN "0" \o IntStr(n) ELSE IntStr(n)

\* start.strftime('%Y-%m-%d %H:%M')
FormatStart(start) ==
    IntStr(start.year) \o "-" \o Pad2(start.month) \o "-" \o Pad2(start.day)
        \o " " \o Pad2(start.hour) \o ":" \o Pad2(start.minute)

\* hashlib.sha1(base.encode("utf-8")).hexdigest(): the digest is written as
\* a term over its argument, that is, SHA-1 is taken to be free of collisions
Sha1Hex(base) == "sha1(" \o base \o ")"

build_uid(category, start, team1, team2) ==
    Sha1Hex(category \o "|" \o FormatStart(start) \o "|" \o team1 \o "|" \o team2)
        \o "@zoh-hokej-ics"

GENDER_EMOJI == << <<"women", "[W]">>, <<"men", "[M]">> >>

MEDAL_EMOJI == << <<"bronze", "[bronze]">>, <<"gold", "[gold]">> >>

TEAM_NAMES_CZ ==
    << <<"CZE", "Cesko">>, <<"FIN", "Finsko">>, <<"SWE", "Svedsko">>,
       <<"USA", "USA">>, <<"CAN", "Kanada">>, <<"SUI", "Svycarsko">>,
       <<"GER", "Nemecko">>, <<"SVK", "Slovensko">>, <<"LAT", "Lotyssko">>,
       <<"DEN", "Dansko">>, <<"NOR", "Norsko">>, <<"AUT", "Rakousko">>,
       <<"FRA", "Francie">>, <<"ITA", "Italie">>, <<"JPN", "Japonsko">>,
       <<"CHN", "Cina">>, <<"KOR", "Jizni Korea">> >>

TEAM_FLAGS ==
    << <<"CZE", "[CZ]">>, <<"FIN", "[FI]">>, <<"SWE", "[SE]">>,
       <<"USA", "[US]">>, <<"CAN", "[CA]">>, <<"SUI", "[CH]">>,
       <<"GER", "[DE]">>, <<"SVK", "[SK]">>, <<"LAT", "[LV]">>,
       <<"DEN", "[DK]">>, <<"NOR", "[NO]">>, <<"AUT", "[AT]">>,
       <<"FRA", "[FR]">>, <<"ITA", "[IT]">>, <<"JPN", "[JP]">>,
       <<"CHN", "[CN]">>, <<"KOR", "[KR]">> >>

\* d.get(key) of a dict written as the sequence of its items: Some(value) or
\* None
DictGet(items, key) ==
    IF \E i \in 1..Len(items) : items[i][1] = key
    THEN Some(items[CHOOSE i \in 1..Len(items) : items[i][1] = key][2])
    ELSE None

\* d.get(key, default)
DictGetOr(items, key, default) ==
    IF DictGet(items, key) = None THEN default ELSE DictGet(items, key)[1]

\* the flag and the name of a code that is not TBD (lines 736-740)
FlagAndName(name, flag) ==
    IF flag # None /\ flag[1] # "" THEN flag[1] \o " " \o name ELSE name

team_display_with_flag(code) ==
    IF code = "TBD" THEN "TBD [hockey]"
    ELSE FlagAndName(DictGetOr(TEAM_NAMES_CZ, code, code), DictGet(TEAM_FLAGS, code))

\* prefix (lines 763-766)
SummaryPrefix(emoji, medal) ==
    IF emoji # "" /\ medal # "" THEN emoji \o " " \o medal \o " "
    ELSE IF emoji # "" THEN emoji \o " "
    ELSE IF medal # "" THEN medal \o " "
    ELSE ""

\* game.playoff_index or 1
IndexOrOne(playoff_index) ==
    IF playoff_index = None \/ playoff_index[1] = 0 THEN 1 ELSE playoff_index[1]

\* lines 770-775: the title of a game that gets no generic label
TeamsSummary(prefix, game) ==
    prefix \o team_display_with_flag(game.team1) \o " - "
           \o team_display_with_flag(game.team2)
           \o (IF /\ game.score1 # None
                  /\ game.score2 # None
                  /\ game.status_suffix # None
                  /\ game.status_suffix[1] # ""
               THEN " " \o IntStr(game.score1[1]) \o ":" \o IntStr(game.score2[1])
                        \o " (" \o game.status_suffix[1] \o ")"
               ELSE "")

\* a wrong variant of SummaryWith that has no generic label
SummaryNamesTeams(prefix, game) == TeamsSummary(prefix, game)

\* lines 767-775, with the prefix
SummaryWith(prefix, game) ==
    IF /\ game.phase_key \in PLAYOFF_PHASES
       /\ (game.team1 = "TBD" \/ game.team2 = "TBD")
    THEN prefix \o PHASE_CZ(game.phase_key) \o " "
                \o IntStr(IndexOrOne(game.playoff_index))
    ELSE TeamsSummary(prefix, game)

build_summary(game) ==
    SummaryWith(SummaryPrefix(DictGetOr(GENDER_EMOJI, game.category, ""),
                              DictGetOr(MEDAL_EMOJI, game.phase_key, "")),
                game)

\* "\n".join(parts) of the parts that are set
RECURSIVE JoinLines(_, _)
JoinLines(parts, i) ==
    IF i > Len(parts) THEN ""
    ELSE IF parts[i] = None \/ parts[i][1] = "" THEN JoinLines(parts, i + 1)
    ELSE IF JoinLines(parts, i + 1) = "" THEN parts[i][1]
    ELSE parts[i][1] \o "\n" \o JoinLines(parts, i + 1)

build_description(game) ==
    JoinLines(<< IF game.group_label # None /\ game.group_label[1] # ""
                 THEN game.group_label
                 ELSE Some(PHASE_CZ(game.phase_key)),
                 game.venue, game.gamecenter >>, 1)

\* the number of days of a month of the year of the tournament
DaysIn(month) ==
    IF month = 2 THEN 28 ELSE IF month \in {4, 6, 9, 11} THEN 30 ELSE 31

\* game.start + timedelta(hours=3)
PlusThreeHours(start) ==
    IF start.hour + 3 < 24 THEN [start EXCEPT !.hour = @ + 3]
    ELSE IF start.day < DaysIn(start.month)
    THEN [start EXCEPT !.hour = @ + 3 - 24, !.day = @ + 1]
    ELSE IF start.month < 12
    THEN [start EXCEPT !.hour = @ + 3 - 24, !.day = 1, !.month = @ + 1]
    ELSE [start EXCEPT !.hour = @ + 3 - 24, !.day = 1, !.month = 1, !.year = @ + 1]

\* the event games_to_calendar adds for a game (lines 798-808)
EventOf(game) ==
    [summary     |-> build_summary(game),
     dtstart     |-> game.start,
     dtend       |-> PlusThreeHours(game.start),
     uid         |-> build_uid(game.category, game.start, game.team1, game.team2),
     description |-> build_description(game)]

(***************************************************************************)
(* Post-processing and the two categories of main().                       *)
(***************************************************************************)
\* a wrong variant of should_include that forgets the playoff phases
IncludesTrackedOnly(game) == TEAM_CZ \in {game.team1, game.team2}

\* should_include
should_include(game) ==
    \/ game.phase_key \in PLAYOFF_PHASES
    \/ TEAM_CZ \in {game.team1, game.team2}

\* the positions of games in the order of sorted(games, key=lambda g: g.start)
SortedOrder(games) ==
    LET keyed == StableSort([i \in 1..Len(games) |-> <<StartKey(games[i].start), i>>])
    IN  [k \in 1..Len(games) |-> keyed[k][2]]

\* games.sort(key=lambda g: g.start)
SortByStart(games) ==
    [k \in 1..Len(games) |-> games[SortedOrder(games)[k]]]

RECURSIVE AssignFrom(_, _, _, _)
AssignFrom(order, k, counters, games) ==
    IF k > Len(order) THEN games
    ELSE LET j   == order[k]
             key == games[j].phase_key
         IN  IF key \in PLAYOFF_PHASES
             THEN AssignFrom(order, k + 1,
                             [counters EXCEPT ![key] = @ + 1],
                             [games EXCEPT ![j].playoff_index = Some(counters[key] + 1)])
             ELSE AssignFrom(order, k + 1, counters, games)

\* a wrong variant of assign_playoff_indices that numbers the games in list
\* order, not in the order of their start
AssignInListOrder(games) ==
    AssignFrom([k \in 1..Len(games) |-> k], 1, [p \in PLAYOFF_PHASES |-> 0], games)

\* assign_playoff_indices: the list after the call, in its unchanged order
assign_playoff_indices(games) ==
    AssignFrom(SortedOrder(games), 1, [p \in PLAYOFF_PHASES |-> 0], games)

\* [g for g in games if pred(g)]
RECURSIVE FilterIncluded(_, _)
FilterIncluded(games, i) ==
    IF i > Len(games) THEN <<>>
    ELSE (IF should_include(games[i]) THEN <<games[i]>> ELSE <<>>)
         \o FilterIncluded(games, i + 1)

\* EVENTS, in the order of the dict literal
EVENTS ==
    << [category      |-> "women",
        label         |-> "zeny",
        wikipedia_url |-> "https://en.wikipedia.org/wiki/Ice_hockey_at_the_2026_Winter_Olympics_%E2%80%93_Women%27s_tournament",
        out_file      |-> "zoh-2026-hokej-zeny-cze.ics"],
       [category      |-> "men",
        label         |-> "muzi",
        wikipedia_url |-> "https://en.wikipedia.org/wiki/Ice_hockey_at_the_2026_Winter_Olympics_%E2%80%93_Men%27s_tournament",
        out_file      |-> "zoh-2026-hokej-muzi-cze.ics"] >>

CombinedFile == "zoh-2026-hokej-cesko.ics"

OutFiles == {EVENTS[k].out_file : k \in 1..Len(EVENTS)} \cup {CombinedFile}

\* re.search(r"/wiki/([^#?]+)", url): Some(title) or None (lines 612-615)
WikiTitle(url) ==
    LET j == Find(url, "/wiki/")
        n == SpanNot(url, j + 6, {"#", "?"})
    IN  IF j = 0 \/ n = 0 THEN None ELSE Some(SubSeq(url, j + 6, j + 5 + n))

\* api_url (line 616)
ApiUrl(title) ==
    "https://en.wikipedia.org/w/api.php?action=parse&prop=wikitext&format=json&page="
        \o title

(***************************************************************************)
(* The pages main() can be handed.  A page is [tables, vevents, lines]:    *)
(* its wikitables, its vevent summary rows and its rendered text lines.    *)
(* The raw-markup API answers with the lines of the markup, with a body    *)
(* that is no JSON, or fails.                                              *)
(***************************************************************************)
MaxRows == 2
MaxTextLines == 3
MaxWikiLines == 3

\* the sequences over S of length at most n
SeqsUpTo(S, n) == UNION {[1..k -> S] : k \in 0..n}

\* the strictly increasing sequences of at most n positions of 1..m
IncreasingUpTo(m, n) ==
    {ix \in SeqsUpTo(1..m, n) : \A i \in 1..(Len(ix) - 1) : ix[i] < ix[i + 1]}

\* the selections of at most n lines of a text, in the order of the text
Selections(text, n) ==
    {[i \in 1..Len(ix) |-> text[ix[i]]] : ix \in IncreasingUpTo(Len(text), n)}

PageTableHeader == <<"Date", "Time", "Round", "Home", "Away">>

PageTableRows ==
    { <<"12 February 2026", "16:40", "Semifinals", "TBD", "TBD">>,
      <<"", "12:10", "Semifinals", "Czechia", "Finland">>,
      <<"11 February 2026", "12:10", "Group A", "Finland", "Sweden">> }

PageTables ==
    {<<>>} \cup
    { <<[caption |-> "", header |-> PageTableHeader, rows |-> rs]>> :
        rs \in SeqsUpTo(PageTableRows, MaxRows) }

SemifinalsHeading == Some([id |-> "Semifinals", text |-> "Semifinals"])
GroupAHeading == Some([id |-> "Group_A", text |-> "Group A"])

PageVeventRows ==
    { [heading |-> SemifinalsHeading, href |-> "",
       cells |-> <<"12 February 2026 16:40", "TBD", "", "TBD", "PalaItalia">>],
      [heading |-> SemifinalsHeading, href |-> "",
       cells |-> <<"12 February 2026 16:40", "TBD", "", "TBD", "Fiera Milano">>],
      [heading |-> SemifinalsHeading, href |-> "",
       cells |-> <<"12 February 2026 12:10", "Czechia", "3-2 OT", "Finland">>],
      [heading |-> GroupAHeading, href |-> "",
       cells |-> <<"11 February 2026 12:10", "Finland", "2-1", "Sweden">>] }

PageVevents == SeqsUpTo(PageVeventRows, MaxRows)

PageTextLines ==
    << "11 February 2026", "12:10", "Czechia 3-2 Finland", "Finland v Sweden" >>

PageTexts == Selections(PageTextLines, MaxTextLines)

\* one representative of each view, for the pages that carry several views
MixedTables ==
    <<[caption |-> "", header |-> PageTableHeader,
       rows |-> << <<"11 February 2026", "12:10", "Group A", "Finland", "Sweden">> >>]>>
MixedVevents ==
    <<[heading |-> SemifinalsHeading, href |-> "",
       cells |-> <<"12 February 2026 12:10", "Czechia", "3-2 OT", "Finland">>]>>
MixedText == <<"12 February 2026", "16:40", "Czechia v Sweden">>

Pages ==
    {[tables |-> t, vevents |-> <<>>, lines |-> <<>>] : t \in PageTables}
    \cup {[tables |-> <<>>, vevents |-> v, lines |-> <<>>] : v \in PageVevents}
    \cup {[tables |-> <<>>, vevents |-> <<>>, lines |-> l] : l \in PageTexts}
    \cup {[tables |-> t, vevents |-> v, lines |-> l] :
            t \in {<<>>, MixedTables}, v \in {<<>>, MixedVevents},
            l \in {<<>>, MixedText}}

WikitextLines ==
    << "| 11 February 2026 || 16:40 || {{flag|FIN}} || {{flag|SWE}}",
       "|-",
       "==Semifinals==",
       "| 12 February 2026 || 12:10 || {{flag|CZE}} || 3-2 || {{flag|GBR}}",
       "|-" >>

\* the API's answers that json.loads accepts: data["parse"]["wikitext"]["*"]
\* split into lines (<<>> for an absent or empty text), and the answer that
\* is no JSON
ApiAnswers ==
    {[json |-> TRUE, lines |-> l] : l \in Selections(WikitextLines, MaxWikiLines)}
    \cup {[json |-> FALSE, lines |-> <<>>]}

(***************************************************************************)
(* The state.  A run of main() uses the first eight variables; the last    *)
(* seven hold one extraction loop (or one call of normalize_team_name)     *)
(* advanced an input at a time, and stay idle during a run of main().      *)
(***************************************************************************)
VARIABLES
    pc,          \* where the run is: main_loop, tables, vevents, text,
                 \* wikitext, loaded, assigned, combined, done (idle: no run)
    cat,         \* the index in EVENTS of the category being processed
    html,        \* the fetched page while a strategy may still read it: None
                 \* before the fetch, and again once strategy 3 has returned
                 \* (strategy 4 is handed the url, not the page)
    games,       \* what load_schedule_for_category returned
    stderr,      \* the lines log() has printed, oldest first
    all_games,   \* all_games[key] of the categories processed so far
    dist,        \* the files written to DIST_DIR: name -> None or the
                 \* calendar name and events written
    exit_code,   \* None, or the value main() returned
    strategy,    \* the loop that runs: table, vevent, text, wikitext,
                 \* normalize (idle: none)
    table,       \* the table strategy's table: None, or its caption and header
    pending,     \* the text strategy's lines[i]: None at the end of the lines
    loop,        \* the local variables of the loop, games among them
    fed,         \* the rows, lines or names handed to the loop so far
    origin,      \* origin[k]: the index in fed of the input at which
                 \* loop.games[k] was appended
    code         \* None, or what normalize_team_name returned for the last name

mainVars == <<pc, cat, html, games, stderr, all_games, dist, exit_code>>

parseVars == <<strategy, table, pending, loop, fed, origin, code>>

vars == <<mainVars, parseVars>>

LogLine(msg, arg) == [msg |-> msg, arg |-> arg]

\* games_to_calendar followed by write_calendar: the file holds the name of
\* the calendar and, for each game of events in order, the event of
\* components at the same place
Calendar(cal_name, cal_games) ==
    Some([name       |-> cal_name,
          events     |-> cal_games,
          components |-> [i \in 1..Len(cal_games) |-> EventOf(cal_games[i])]])

\* no extraction loop runs on its own
ParseIdle ==
    /\ strategy = "idle"
    /\ table = None
    /\ pending = None
    /\ loop = [games |-> <<>>]
    /\ fed = <<>>
    /\ origin = <<>>
    /\ code = None

MainInit ==
    /\ pc = "main_loop"
    /\ cat = 1
    /\ html = None
    /\ games = <<>>
    /\ stderr = <<>>
    /\ all_games = <<>>
    /\ dist = [f \in OutFiles |-> None]
    /\ exit_code = None
    /\ ParseIdle

\* fetch_url(cfg["wikipedia_url"]) returns the page (line 246)
FetchPage ==
    /\ pc = "main_loop"
    /\ \E page \in Pages : html' = Some(page)
    /\ stderr' = stderr \o << LogLine("Fetching", EVENTS[cat].wikipedia_url),
                              LogLine("HTTP", EVENTS[cat].wikipedia_url) >>
    /\ pc' = "tables"
    /\ UNCHANGED <<cat, games, all_games, dist, exit_code, parseVars>>

\* a wrong variant of FetchPageRaises in which the exception leaves main()
FetchPageRaisesFatal ==
    /\ pc = "main_loop"
    /\ stderr' = Append(stderr, LogLine("Fetching", EVENTS[cat].wikipedia_url))
    /\ pc' = "done"
    /\ exit_code' = Some(1)
    /\ UNCHANGED <<cat, html, games, all_games, dist, parseVars>>

\* fetch_url raises; load_schedule_for_category catches it and returns []
FetchPageRaises ==
    /\ pc = "main_loop"
    /\ stderr' = stderr \o << LogLine("Fetching", EVENTS[cat].wikipedia_url),
                              LogLine("Wikipedia fetch failed", "") >>
    /\ games' = <<>>
    /\ pc' = "loaded"
    /\ UNCHANGED <<cat, html, all_games, dist, exit_code, parseVars>>

\* a wrong variant of StrategyStep in which the games of a strategy do not
\* end the cascade
StrategyStepGoesOn(here, found, msg, next) ==
    /\ pc = here
    /\ stderr' = Append(stderr, LogLine(msg, Len(found)))
    /\ games' = found
    /\ pc' = next
    /\ html' = IF next = "wikitext" THEN None ELSE html
    /\ UNCHANGED <<cat, all_games, dist, exit_code, parseVars>>

\* a wrong variant of StrategyStep in which a strategy that found nothing is
\* followed by a new fetch of the page
StrategyStepFetches(here, found, msg, next) ==
    /\ pc = here
    /\ IF found # <<>>
       THEN /\ stderr' = Append(stderr, LogLine(msg, Len(found)))
            /\ games' = found /\ pc' = "loaded" /\ html' = None
       ELSE /\ stderr' = stderr \o
                   << LogLine(msg, Len(found)),
                      LogLine("Fetching", EVENTS[cat].wikipedia_url) >>
            /\ games' = games
            /\ pc' = next
            /\ html' = IF next = "wikitext" THEN None ELSE html
    /\ UNCHANGED <<cat, all_games, dist, exit_code, parseVars>>

\* one strategy run on the fetched page and the test that follows it
\* (lines 353-365): return its games, or go on to the next strategy
StrategyStep(here, found, msg, next) ==
    /\ pc = here
    /\ stderr' = Append(stderr, LogLine(msg, Len(found)))
    /\ IF found # <<>>
       THEN games' = found /\ pc' = "loaded" /\ html' = None
       ELSE /\ games' = games
            /\ pc' = next
            /\ html' = IF next = "wikitext" THEN None ELSE html
    /\ UNCHANGED <<cat, all_games, dist, exit_code, parseVars>>

TableStrategy ==
    StrategyStep("tables", ParseTables(html[1].tables, EVENTS[cat].category),
                 "Wikipedia tables parsed games", "vevents")

VeventStrategy ==
    StrategyStep("vevents",
                 parse_wikipedia_vevents(html[1].vevents, EVENTS[cat].category),
                 "Wikipedia vevent parsed games", "text")

TextStrategy ==
    StrategyStep("text",
                 parse_wikipedia_schedule_text(html[1].lines, EVENTS[cat].category),
                 "Wikipedia text fallback games", "wikitext")

\* parse_wikipedia_wikitext for an answer of the API (lines 611-727)
WikitextResult(url, category, answer) ==
    IF WikiTitle(url) = None \/ ~answer.json \/ answer.lines = <<>>
    THEN <<>>
    ELSE WikitextGames(answer.lines, category)

\* the log of a call of parse_wikipedia_wikitext that returned found
WikitextLog(api_url, found) ==
    << LogLine("Fetching", api_url),
       LogLine("HTTP", api_url),
       LogLine("Wikipedia wikitext parsed games", Len(found)) >>

\* the API request returns and the markup is parsed (lines 367-369)
WikitextReturns(found) ==
    /\ stderr' = stderr \o
          WikitextLog(ApiUrl(WikiTitle(EVENTS[cat].wikipedia_url)[1]), found)
    /\ games' = found

WikitextStrategy ==
    /\ pc = "wikitext"
    /\ \E answer \in ApiAnswers :
         WikitextReturns(WikitextResult(EVENTS[cat].wikipedia_url,
                                        EVENTS[cat].category, answer))
    /\ pc' = "loaded"
    /\ UNCHANGED <<cat, html, all_games, dist, exit_code, parseVars>>

\* the API request raises; load_schedule_for_category catches it
WikitextFetchRaises ==
    /\ pc = "wikitext"
    /\ stderr' = stderr \o
           << LogLine("Fetching", ApiUrl(WikiTitle(EVENTS[cat].wikipedia_url)[1])),
              LogLine("Wikipedia fetch failed", "") >>
    /\ games' = <<>>
    /\ pc' = "loaded"
    /\ UNCHANGED <<cat, html, all_games, dist, exit_code, parseVars>>

\* the loop of main() goes to the next category, or ends
NextCategory ==
    /\ cat' = IF cat < Len(EVENTS) THEN cat + 1 ELSE cat
    /\ pc' = IF cat < Len(EVENTS) THEN "main_loop" ELSE "combined"

\* no games for the category (lines 834-837)
SkipCategory ==
    /\ pc = "loaded"
    /\ games = <<>>
    /\ stderr' = Append(stderr, LogLine("No games, skipping", EVENTS[cat].category))
    /\ all_games' = Append(all_games, <<>>)
    /\ NextCategory
    /\ UNCHANGED <<html, games, dist, exit_code, parseVars>>

\* assign_playoff_indices(games) (line 839)
AssignIndices ==
    /\ pc = "loaded"
    /\ games # <<>>
    /\ games' = assign_playoff_indices(games)
    /\ pc' = "assigned"
    /\ UNCHANGED <<cat, html, stderr, all_games, dist, exit_code, parseVars>>

\* the category's games filtered, sorted and written (lines 841-848)
WriteKept(cfg, kept) ==
    /\ all_games' = Append(all_games, kept)
    /\ dist' = [dist EXCEPT ![cfg.out_file] =
                   Calendar("ZOH 2026 - hokej (" \o cfg.label \o ")", kept)]
    /\ stderr' = Append(stderr, LogLine("Wrote", cfg.out_file))

WriteCategory ==
    /\ pc = "assigned"
    /\ WriteKept(EVENTS[cat], SortByStart(FilterIncluded(games, 1)))
    /\ games' = <<>>
    /\ NextCategory
    /\ UNCHANGED <<html, exit_code, parseVars>>

RECURSIVE Concat(_, _)
Concat(lists, i) ==
    IF i > Len(lists) THEN <<>> ELSE lists[i] \o Concat(lists, i + 1)

\* the combined calendar (lines 850-858)
WriteAll(combined) ==
    IF combined # <<>>
    THEN /\ dist' = [dist EXCEPT ![CombinedFile] =
                        Calendar("ZOH 2026 - hokej (Cesko)", SortByStart(combined))]
         /\ stderr' = Append(stderr, LogLine("Wrote", CombinedFile))
    ELSE UNCHANGED <<dist, stderr>>

\* the combined calendar and the return of main() (lines 850-860)
WriteCombined ==
    /\ pc = "combined"
    /\ WriteAll(Concat(all_games, 1))
    /\ pc' = "done"
    /\ exit_code' = Some(0)
    /\ UNCHANGED <<cat, html, games, all_games, parseVars>>

MainNext ==
    \/ FetchPage
    \/ FetchPageRaises
    \/ TableStrategy
    \/ VeventStrategy
    \/ TextStrategy
    \/ WikitextStrategy
    \/ WikitextFetchRaises
    \/ SkipCategory
    \/ AssignIndices
    \/ WriteCategory
    \/ WriteCombined

Init == MainInit
Next == MainNext
Spec == Init /\ [][Next]_vars

(***************************************************************************)
(* One extraction loop, advanced a row or a line at a time over inputs     *)
(* chosen as the loop goes, and normalize_team_name over a set of names.   *)
(***************************************************************************)
MaxFed == 4

\* the category the loops are run for
ParseCategory == EVENTS[2].category

TableHeads ==
    { [caption |-> "", header |-> PageTableHeader],
      [caption |-> "Quarterfinals", header |-> <<"Date", "Time", "Match">>] }

TableRowTexts ==
    { <<"12 February 2026", "16:40", "Semifinals", "TBD", "TBD">>,
      <<"", "12:10", "Semifinals", "Czechia", "Finland">>,
      <<"18 February 2026", "21:10", "Quarterfinals", "Winner Group A", "TBD">>,
      <<"11 February 2026", "16:40", "Group B", "Great Britain GBR", "Czechia[a]">>,
      <<"13 February 2026", "16:40", "Semifinals", "Czechia", "Finland (rescheduled)">>,
      <<"14 February 2026", "TBD", "Bronze medal game", "Canada", "Sweden (from 14:00)">> }

VeventRows ==
    { [heading |-> SemifinalsHeading, href |-> "",
       cells |-> <<"12 February 2026 16:40", "TBD", "", "TBD", "PalaItalia">>],
      [heading |-> SemifinalsHeading, href |-> "",
       cells |-> <<"12 February 2026 12:10", "Czechia", "3-2 OT", "Finland">>],
      [heading |-> GroupAHeading, href |-> "",
       cells |-> <<"11 February 2026 12:10", "Finland", "2-1", "Sweden">>],
      [heading |-> GroupAHeading, href |-> "#Semifinals",
       cells |-> <<"20 February 2026 16:40", "Canada", "4-3 GWS", "GBR">>],
      [heading |-> None, href |-> "#Group_B",
       cells |-> <<"11 February 2026 21:10", "TBD", "v", "TBD", "Fiera Milano">>],
      [heading |-> SemifinalsHeading, href |-> "",
       cells |-> <<"12 February 2026 16:40", "Czechia", "Finland">>] }

TextLines ==
    { "11 February 2026", "12:10", "Czechia 3-2 Finland", "Group A",
      "Semi-finals", "TBD v TBD", "United States of America" }

MarkupLines ==
    { "=== Group A ===",
      "== Semifinals ==",
      "|-",
      "| 11 February 2026 || 12:10 || {{flag|CZE}} || 3-2 OT || {{flag|FIN}}",
      "| 16:40 || {{flagicon|CZE}} {{flag|CZE}} || PalaItalia",
      "| 12 February 2026 || 21:10 || {{flag|TBD}} || {{flagcountry|TBD}}",
      "| 12 February 2026 || 21:10 || {{flag|GBR}} || {{flag|TBD}}" }

NameCores ==
    { "", "Czechia", "czech republic", "Czech Republic (CZE)", "Finland",
      "CZE", "GBR", "Great Britain GBR", "THE best", "ABCD", "tbd", "3-2 GWS",
      "South  Korea", "AB[c]C" }

NameAffixes == { "", " ", "[a]", "[a][b]", "x" }

\* the names normalize_team_name is handed
Names == { a \o c \o b : a \in NameAffixes, c \in NameCores, b \in NameAffixes }

\* origin after a pass that took the games from before to after
OriginAfter(before, after, n) ==
    IF Len(after) > Len(before) THEN Append(origin, n) ELSE origin

\* the loop state and the log of inputs after a pass over input
Pass(input, after) ==
    /\ loop' = after
    /\ fed' = Append(fed, input)
    /\ origin' = OriginAfter(loop.games, after.games, Len(fed) + 1)

\* a row of a table as it is handed to the row loop
RowOf(head, texts, first) ==
    [caption |-> head.caption, header |-> head.header, texts |-> texts,
     first |-> first]

ParseInit ==
    /\ pc = "idle"
    /\ cat = 1
    /\ html = None
    /\ games = <<>>
    /\ stderr = <<>>
    /\ all_games = <<>>
    /\ dist = [f \in OutFiles |-> None]
    /\ exit_code = None
    /\ strategy \in {"table", "vevent", "text", "wikitext", "normalize"}
    /\ table = None
    /\ pending \in IF strategy = "text" THEN {Some(l) : l \in TextLines}
                   ELSE {None}
    /\ loop = CASE strategy = "table"    -> TableStart(<<>>)
                [] strategy = "text"     -> TextStart
                [] strategy = "wikitext" -> WikitextStart
                [] OTHER                 -> [games |-> <<>>]
    /\ fed = <<>>
    /\ origin = <<>>
    /\ code = None

\* the loop over the tables comes to a table: its caption, its header cells,
\* and its first tr (lines 251-273)
TableBegin ==
    /\ strategy = "table"
    /\ Len(fed) < MaxFed
    /\ \E head \in TableHeads :
         /\ table' = Some(head)
         /\ Pass(RowOf(head, head.header, TRUE),
                 TableOpen(ParseCategory, head.caption, head.header, loop.games))
    /\ UNCHANGED <<mainVars, strategy, pending, code>>

\* one pass of the row loop of the table (lines 274-351)
TableRow ==
    /\ strategy = "table"
    /\ table # None
    /\ Len(fed) < MaxFed
    /\ \E texts \in TableRowTexts :
         Pass(RowOf(table[1], texts, FALSE),
              TableRowStep(ParseCategory, table[1].caption,
                           TableColumns(table[1].header), loop, texts))
    /\ UNCHANGED <<mainVars, strategy, table, pending, code>>

\* one pass of the loop over the summary rows (lines 529-606)
VeventRow ==
    /\ strategy = "vevent"
    /\ Len(fed) < MaxFed
    /\ \E row \in VeventRows :
         Pass(row, [games |-> VeventRowStep(ParseCategory, loop.games, row)])
    /\ UNCHANGED <<mainVars, strategy, table, pending, code>>

\* one pass of the while loop over the rendered lines (lines 390-499): the
\* line is lines[i], and next_line is lines[i + 1], or None at the end
TextLine ==
    /\ strategy = "text"
    /\ pending # None
    /\ \E next_line \in {None} \cup
            (IF Len(fed) + 1 < MaxFed THEN {Some(l) : l \in TextLines} ELSE {}) :
         /\ Pass(pending[1],
                 TextLineStep(ParseCategory, loop, pending[1], next_line))
         /\ pending' = next_line
    /\ UNCHANGED <<mainVars, strategy, table, code>>

\* one pass of the loop over the lines of the markup (lines 665-725)
WikitextLineRead ==
    /\ strategy = "wikitext"
    /\ Len(fed) < MaxFed
    /\ \E line \in MarkupLines :
         Pass(line, WikitextLineStep(ParseCategory, loop, line))
    /\ UNCHANGED <<mainVars, strategy, table, pending, code>>

\* a call of normalize_team_name
NormalizeName ==
    /\ strategy = "normalize"
    /\ code = None
    /\ \E name \in Names :
         /\ fed' = <<name>>
         /\ code' = Some(normalize_team_name(name))
    /\ UNCHANGED <<mainVars, strategy, table, pending, loop, origin>>

ParseNext ==
    \/ TableBegin
    \/ TableRow
    \/ VeventRow
    \/ TextLine
    \/ WikitextLineRead
    \/ NormalizeName

SpecParse == ParseInit /\ [][ParseNext]_vars

(***************************************************************************)
(* The properties of a run of main().                                      *)
(***************************************************************************)
\* the log line i is msg with the argument arg
Logged(i, msg, arg) ==
    /\ i >= 1
    /\ i <= Len(stderr)
    /\ stderr[i].msg = msg
    /\ stderr[i].arg = arg

\* the lines of the log that record a fetch of url
FetchesOf(url) == {i \in 1..Len(stderr) : Logged(i, "Fetching", url)}

PageUrl(k) == EVENTS[k].wikipedia_url

\* the API request of each category
ApiUrls == [k \in 1..Len(EVENTS) |-> ApiUrl(WikiTitle(EVENTS[k].wikipedia_url)[1])]

ApiUrlOf(k) == ApiUrls[k]

\* the category k has been begun
Begun(k) == k < cat \/ (k = cat /\ pc # "main_loop")

\* the part of the log that belongs to category k: from its fetch up to the
\* fetch of the next category
LogOf(k) ==
    {i \in 1..Len(stderr) :
        /\ \E j \in FetchesOf(PageUrl(k)) : j <= i
        /\ \A n \in (k + 1)..Len(EVENTS) :
              \A j \in FetchesOf(PageUrl(n)) : i < j}

\* a fetch of category k raised
FailedIn(k) == \E i \in LogOf(k) : stderr[i].msg = "Wikipedia fetch failed"

StrategyLines ==
    { "Wikipedia tables parsed games", "Wikipedia vevent parsed games",
      "Wikipedia text fallback games", "Wikipedia wikitext parsed games" }

\* a strategy of category k returned at least one game
FoundIn(k) ==
    \E i \in LogOf(k) : stderr[i].msg \in StrategyLines /\ stderr[i].arg > 0

\* what strategy n of the first three returns for the fetched page
ResultOf(n, page, category) ==
    CASE n = 1 -> ParseTables(page.tables, category)
      [] n = 2 -> parse_wikipedia_vevents(page.vevents, category)
      [] n = 3 -> parse_wikipedia_schedule_text(page.lines, category)

StrategyPc == <<"tables", "vevents", "text", "wikitext">>

\* the step from strategy n: every earlier strategy returned nothing, and
\* the strategy's games, if any, are the result, else the next one is tried
C1Strategy(n) ==
    /\ \A m \in 1..(n - 1) : ResultOf(m, html[1], EVENTS[cat].category) = <<>>
    /\ IF ResultOf(n, html[1], EVENTS[cat].category) # <<>>
       THEN /\ pc' = "loaded"
            /\ games' = ResultOf(n, html[1], EVENTS[cat].category)
       ELSE /\ pc' = StrategyPc[n + 1]
            /\ games' = games

C1Step ==
    /\ \A n \in 1..3 : pc = StrategyPc[n] => C1Strategy(n)
    /\ pc = "wikitext" =>
          /\ pc' = "loaded"
          /\ \/ games' = <<>>
             \/ \E answer \in ApiAnswers :
                   games' = WikitextResult(PageUrl(cat), EVENTS[cat].category, answer)
    /\ pc' \in {"vevents", "text", "wikitext"} =>
          \E n \in 1..3 : pc = StrategyPc[n] /\ pc' = StrategyPc[n + 1]

\* C1: for each category the strategies are tried in the order table, vevent,
\* text, wikitext; the result is exactly the list of the first strategy that
\* returned a game, no later strategy runs after it, and the result is empty
\* only if every strategy that ran returned nothing.
C1_CascadeOrder == [][C1Step]_vars

\* a category for which the tables gave nothing and the vevent rows won
C1_Witness ==
    /\ pc = "loaded"
    /\ games # <<>>
    /\ Len(stderr) >= 2
    /\ Logged(Len(stderr) - 1, "Wikipedia tables parsed games", 0)
    /\ stderr[Len(stderr)].msg = "Wikipedia vevent parsed games"
    /\ stderr[Len(stderr)].arg = Len(games)

\* every fetch the log records is the one page fetch of a begun category, or
\* the one API fetch of a category, which comes right after strategies 1-3
\* of that category logged zero games
C2Log ==
    /\ \A i \in 1..Len(stderr) :
          stderr[i].msg = "Fetching" =>
             \E k \in 1..Len(EVENTS) : stderr[i].arg \in {PageUrl(k), ApiUrlOf(k)}
    /\ \A k \in 1..Len(EVENTS) :
          /\ Cardinality(FetchesOf(PageUrl(k))) = IF Begun(k) THEN 1 ELSE 0
          /\ Cardinality(FetchesOf(ApiUrlOf(k))) <= 1
          /\ \A i \in FetchesOf(ApiUrlOf(k)) :
                /\ Logged(i - 1, "Wikipedia text fallback games", 0)
                /\ Logged(i - 2, "Wikipedia vevent parsed games", 0)
                /\ Logged(i - 3, "Wikipedia tables parsed games", 0)
                /\ Logged(i - 4, "HTTP", PageUrl(k))
                /\ Logged(i - 5, "Fetching", PageUrl(k))

\* strategies 2 and 3 are handed the document strategy 1 was handed
C2SameDocument ==
    (pc \in {"tables", "vevents"} /\ pc' \in {"vevents", "text"}) => html' = html

\* C2: within a category the source URL is fetched exactly once, strategies
\* 2 and 3 run on the document that was fetched, and the only other fetch is
\* the API request of strategy 4, made only after strategies 1-3 returned no
\* game.
C2_FetchedOnce == [][C2Log' /\ C2SameDocument]_vars

\* a run in which the first category went through all four strategies
C2_Witness ==
    /\ pc = "done"
    /\ FetchesOf(ApiUrlOf(1)) # {}
    /\ FetchesOf(ApiUrlOf(2)) = {}
    /\ FoundIn(2)

\* C3: a fetch that raises, the page fetch or the API fetch, is never fatal:
\* the category ends with no games and no file, every category is still
\* processed, a category that found games has its file, and main returns 0.
C3_FetchFailureNotFatal ==
    /\ exit_code \in {None, Some(0)}
    /\ exit_code # None <=> pc = "done"
    /\ \A k \in 1..Len(EVENTS) :
          (FailedIn(k) /\ (k < cat \/ pc \in {"combined", "done"})) =>
             /\ dist[EVENTS[k].out_file] = None
             /\ all_games[k] = <<>>
    /\ pc = "done" =>
          \A k \in 1..Len(EVENTS) :
             /\ FetchesOf(PageUrl(k)) # {}
             /\ FoundIn(k) => dist[EVENTS[k].out_file] # None

\* the page fetch of the first category raised, and the second category
\* was written
C3_Witness ==
    /\ pc = "done"
    /\ FailedIn(1)
    /\ FetchesOf(ApiUrlOf(1)) = {}
    /\ dist[EVENTS[2].out_file] # None
    /\ exit_code = Some(0)

\* the games of phase p in a list, as positions
InPhase(list, p) == {i \in 1..Len(list) : list[i].phase_key = p}

C5Post(before, after) ==
    /\ Len(after) = Len(before)
    /\ \A i \in 1..Len(after) :
          /\ [after[i] EXCEPT !.playoff_index = None] = before[i]
          /\ after[i].phase_key \notin PLAYOFF_PHASES => after[i].playoff_index = None
          /\ after[i].phase_key \in PLAYOFF_PHASES => after[i].playoff_index # None
    /\ \A p \in PLAYOFF_PHASES :
          /\ {after[i].playoff_index[1] : i \in InPhase(after, p)}
                = 1..Cardinality(InPhase(after, p))
          /\ \A i, j \in InPhase(after, p) :
                StartKey(after[i].start) < StartKey(after[j].start)
                   => after[i].playoff_index[1] < after[j].playoff_index[1]

\* C5: after assign_playoff_indices the games of each playoff phase carry
\* exactly the indices 1..N, increasing with the start time; preliminary
\* games keep no index, and no other field of any game is changed.
C5_PlayoffIndices ==
    [][(pc = "loaded" /\ pc' = "assigned") => C5Post(games, games')]_vars

\* two games of one playoff phase listed later-first, numbered by start
C5_Witness ==
    /\ pc = "assigned"
    /\ \E i, j \in 1..Len(games) :
          /\ i < j
          /\ games[i].phase_key = games[j].phase_key
          /\ games[i].playoff_index = Some(2)
          /\ games[j].playoff_index = Some(1)

\* the game is a playoff game or a game of the tracked team
Relevant(game) ==
    \/ game.phase_key \in {"quarterfinals", "semifinals", "bronze", "gold"}
    \/ game.team1 = "CZE"
    \/ game.team2 = "CZE"

\* how often a game occurs in a list
Count(list, game) == Cardinality({i \in 1..Len(list) : list[i] = game})

\* the events of a file, <<>> for a file that was not written
EventsOf(files, f) == IF files[f] = None THEN <<>> ELSE files[f][1].events

C6Step ==
    /\ \A f \in OutFiles :
          \A i \in 1..Len(EventsOf(dist', f)) : Relevant(EventsOf(dist', f)[i])
    /\ pc = "assigned" =>
          /\ dist'[EVENTS[cat].out_file] # None
          /\ \A i \in 1..Len(games) :
                Count(EventsOf(dist', EVENTS[cat].out_file), games[i])
                   = IF Relevant(games[i]) THEN Count(games, games[i]) ELSE 0
    /\ pc = "combined" =>
          \A k \in 1..Len(EVENTS) :
             \A i \in 1..Len(EventsOf(dist, EVENTS[k].out_file)) :
                Count(EventsOf(dist', CombinedFile),
                      EventsOf(dist, EVENTS[k].out_file)[i]) >= 1

\* C6: every game written to a category file or to the combined file is a
\* playoff game or a game of CZE; a preliminary game of two other teams is
\* in no file; and no playoff game and no CZE game the cascade returned is
\* missing from the category file or from the combined file.
C6_OnlyRelevantWritten == [][C6Step]_vars

\* the cascade returned two games for the first category, and one of them,
\* a preliminary game of two other teams, was left out of its file
C6_Witness ==
    /\ dist[EVENTS[1].out_file] # None
    /\ Len(EventsOf(dist, EVENTS[1].out_file)) = 1
    /\ \E i \in LogOf(1) :
          /\ stderr[i].msg \in StrategyLines
          /\ stderr[i].arg = 2

(***************************************************************************)
(* The properties of the extraction loops and of normalize_team_name.      *)
(***************************************************************************)
\* the games the running loop has appended so far
Emitted == 1..Len(loop.games)

\* C4: for every game of every strategy, status_suffix is set if and only if
\* both scores are set.
C4_StatusIffScores ==
    \A k \in Emitted :
       loop.games[k].status_suffix # None
          <=> (loop.games[k].score1 # None /\ loop.games[k].score2 # None)

\* three uppercase letters
IsToken(text) == Len(text) = 3 /\ \A i \in 1..3 : Ch(text, i) \in UpperCase

CodeOrTBD(text) == text \in AliasCodes \cup {"TBD"}

\* C7 as stated: normalize_team_name returns a code of the alias table or
\* TBD, and so the teams of every game are codes of the alias table or TBD.
C7_RecognizedOrTBD ==
    /\ code # None => CodeOrTBD(code[1])
    /\ \A k \in Emitted :
          CodeOrTBD(loop.games[k].team1) /\ CodeOrTBD(loop.games[k].team2)

\* C7 amended: normalize_team_name returns a code of the alias table, TBD, or
\* a three-letter uppercase token of the name without its bracketed parts;
\* the teams of every game are codes of the table, TBD, or such tokens.
C7_CodeTokenOrTBD ==
    /\ code # None =>
          \/ CodeOrTBD(code[1])
          \/ IsToken(code[1]) /\ Contains(RemoveBracketed(fed[1]), code[1])
    /\ \A k \in Emitted :
          /\ CodeOrTBD(loop.games[k].team1) \/ IsToken(loop.games[k].team1)
          /\ CodeOrTBD(loop.games[k].team2) \/ IsToken(loop.games[k].team2)

\* a name that holds a three-letter token the alias table does not know
C7_Witness ==
    /\ strategy = "normalize"
    /\ code # None
    /\ ~CodeOrTBD(code[1])

\* C8: for every game of every strategy, group_label is set only when
\* phase_key is preliminary.
C8_GroupOnlyPreliminary ==
    \A k \in Emitted :
       loop.games[k].group_label # None => loop.games[k].phase_key = "preliminary"

Unresolved(game) == game.team1 = "TBD" /\ game.team2 = "TBD"

\* the input i was appended as a game with both teams TBD
KeptUnresolved(i) ==
    \E k \in Emitted : origin[k] = i /\ Unresolved(loop.games[k])

\* a table row with a date, a time and no cell that names a team
UnresolvedTableRow(row) ==
    /\ ~row.first
    /\ row.header = PageTableHeader
    /\ Len(row.texts) = Len(PageTableHeader)
    /\ ParseDateCell(row.texts[1]) # None
    /\ SearchTime(row.texts[2]) # None
    /\ ~Contains(Lower(Join(row.texts)), "schedule")
    /\ \A c \in 1..Len(row.texts) : normalize_team_name(row.texts[c]) = "TBD"

\* a summary row with a date that parses, a time and two cells that name no
\* team
UnresolvedVeventRow(row) ==
    /\ Len(row.cells) >= 4
    /\ normalize_team_name(row.cells[2]) = "TBD"
    /\ normalize_team_name(row.cells[4]) = "TBD"
    /\ SearchTime(row.cells[1]) # None
    /\ SearchDateVevent(row.cells[1]) # None
    /\ ParsedDate(SearchDateVevent(row.cells[1])) # None

\* C9: a row whose two teams are both TBD is kept as a game by the table
\* strategy and by the vevent strategy; the text strategy and the wikitext
\* strategy emit no game with both teams TBD, but for a text line that
\* contains "TBD v TBD" (in any case of the letters).
C9_UnresolvedRows ==
    /\ strategy = "table" =>
          \A i \in 1..Len(fed) : UnresolvedTableRow(fed[i]) => KeptUnresolved(i)
    /\ strategy = "vevent" =>
          \A i \in 1..Len(fed) : UnresolvedVeventRow(fed[i]) => KeptUnresolved(i)
    /\ strategy = "wikitext" => \A k \in Emitted : ~Unresolved(loop.games[k])
    /\ strategy = "text" =>
          \A k \in Emitted :
             Unresolved(loop.games[k]) =>
                Contains(Lower(fed[origin[k]]), "tbd v tbd")

\* the text strategy has emitted the placeholder game of a "TBD v TBD" line
C9_Witness ==
    /\ strategy = "text"
    /\ \E k \in Emitted :
          /\ Unresolved(loop.games[k])
          /\ fed[origin[k]] = "TBD v TBD"

\* the row separators among the first i lines handed to the wikitext loop
Separators(i) == {j \in 1..i : StartsWith(fed[j], "|-")}

\* the greatest position of a non-empty set of positions
LastOf(S) == CHOOSE m \in S : \A x \in S : x <= m

\* the text of the row that the separator at line i closes
RowTextAt(i) ==
    Join(SubSeq(fed,
                IF Separators(i - 1) = {} THEN 1 ELSE LastOf(Separators(i - 1)) + 1,
                i - 1))

\* the rows up to the one closed at line i whose text holds a date token
DatedRows(i) ==
    {j \in Separators(i) : SearchDateWikitext(RowTextAt(j)) # None}

\* the number of flag, flagicon and flagcountry templates in a text
TemplateCount(text) ==
    Len(TemplateArgs(text, "{{flag|")) + Len(TemplateArgs(text, "{{flagicon|"))
        + Len(TemplateArgs(text, "{{flagcountry|"))

DateOf(start) == [year |-> start.year, month |-> start.month, day |-> start.day]

TimeOf(start) == [hour |-> start.hour, minute |-> start.minute]

\* C10 as stated: every game of the wikitext strategy has two distinct teams,
\* both other than TBD, and a date and a time token in the text of its own
\* row, from which its date is taken.
C10_OwnRowDateDistinctTeams ==
    strategy = "wikitext" =>
       \A k \in Emitted :
          /\ loop.games[k].team1 # loop.games[k].team2
          /\ loop.games[k].team1 # "TBD"
          /\ loop.games[k].team2 # "TBD"
          /\ SearchTime(RowTextAt(origin[k])) # None
          /\ SearchDateWikitext(RowTextAt(origin[k])) # None
          /\ ParsedDate(SearchDateWikitext(RowTextAt(origin[k])))
                = Some(DateOf(loop.games[k].start))

\* C10 amended: every game of the wikitext strategy has two teams other than
\* TBD (not necessarily distinct) from at least two team templates of its own
\* row, the time of the time token of its own row, and the date of the last
\* date token in its own row or, if that row has none, in the rows before it.
C10_TwoTeamsTimeCarriedDate ==
    strategy = "wikitext" =>
       \A k \in Emitted :
          /\ loop.games[k].team1 # "TBD"
          /\ loop.games[k].team2 # "TBD"
          /\ TemplateCount(RowTextAt(origin[k])) >= 2
          /\ SearchTime(RowTextAt(origin[k])) = Some(TimeOf(loop.games[k].start))
          /\ DatedRows(origin[k]) # {}
          /\ ParsedDate(SearchDateWikitext(RowTextAt(LastOf(DatedRows(origin[k])))))
                = Some(DateOf(loop.games[k].start))

\* a game of one team against itself, dated by an earlier row
C10_Witness ==
    /\ strategy = "wikitext"
    /\ \E k \in Emitted :
          /\ loop.games[k].team1 = loop.games[k].team2
          /\ SearchDateWikitext(RowTextAt(origin[k])) = None

(***************************************************************************)
(* The properties of the events of the calendars.                          *)
(***************************************************************************)
\* the calendars that were written
Written == {f \in OutFiles : dist[f] # None}

\* the places of the events of a written calendar
Places(f) == 1..Len(dist[f][1].events)

\* two games of a calendar are distinct games when they differ in something
\* the page said, the number given by assign_playoff_indices left aside
DistinctGames(g, h) ==
    [g EXCEPT !.playoff_index = None] # [h EXCEPT !.playoff_index = None]

\* C11: the identifier of an event is build_uid of the category, start and
\* teams of its game, and within one written calendar no two distinct games
\* carry the same identifier.
C11_UidUnique ==
    \A f \in Written :
       \A i, j \in Places(f) :
          /\ dist[f][1].components[i].uid
                = build_uid(dist[f][1].events[i].category, dist[f][1].events[i].start,
                            dist[f][1].events[i].team1, dist[f][1].events[i].team2)
          /\ DistinctGames(dist[f][1].events[i], dist[f][1].events[j])
                => dist[f][1].components[i].uid # dist[f][1].components[j].uid

\* the game and the title of the event at place i of a written calendar
GameAt(f, i) == dist[f][1].events[i]

TitleAt(f, i) == dist[f][1].components[i].summary

\* a playoff game with a team that is not determined yet
UndeterminedSlot(g) ==
    g.phase_key \in PLAYOFF_PHASES /\ (g.team1 = "TBD" \/ g.team2 = "TBD")

KnownTeams(g) == g.team1 # "TBD" /\ g.team2 # "TBD"

\* the generic label of a game: the Czech name of its phase and its number
\* within the phase
PhaseIndexLabel(g) ==
    PHASE_CZ(g.phase_key) \o " "
        \o IntStr(IF g.playoff_index = None THEN 1 ELSE g.playoff_index[1])

EndsWith(s, p) == Len(p) <= Len(s) /\ MatchAt(s, p, Len(s) - Len(p) + 1)

\* the Czech name of a team, or its code when the table has no name for it
NameOfTeam(team) ==
    IF \E k \in 1..Len(TEAM_NAMES_CZ) : TEAM_NAMES_CZ[k][1] = team
    THEN TEAM_NAMES_CZ[CHOOSE k \in 1..Len(TEAM_NAMES_CZ) : TEAM_NAMES_CZ[k][1] = team][2]
    ELSE team

\* the codes the flag table knows
Flagged == {TEAM_FLAGS[k][1] : k \in 1..Len(TEAM_FLAGS)}

FlagOfTeam(team) ==
    TEAM_FLAGS[CHOOSE k \in 1..Len(TEAM_FLAGS) : TEAM_FLAGS[k][1] = team][2]

\* a title names no team: not a name of the table, not a code of the game,
\* not the placeholder
NoTeamNames(title, g) ==
    /\ \A k \in 1..Len(TEAM_NAMES_CZ) : ~Contains(title, TEAM_NAMES_CZ[k][2])
    /\ ~Contains(title, g.team1)
    /\ ~Contains(title, g.team2)
    /\ ~Contains(title, "TBD")

\* what a title shows of the two scores
ScoreShown(g) == " " \o IntStr(g.score1[1]) \o ":" \o IntStr(g.score2[1]) \o " ("

\* the icons a title starts with: the gender of the tournament, then the
\* medal of a medal game
IconsOf(g) ==
    (IF g.category = "women" THEN "[W] " ELSE "[M] ")
        \o (IF g.phase_key = "bronze" THEN "[bronze] "
            ELSE IF g.phase_key = "gold" THEN "[gold] " ELSE "")

\* a team as a title shows it: its flag, when the flag table has one, and its
\* name
TeamShown(team) ==
    IF team \in Flagged THEN FlagOfTeam(team) \o " " \o NameOfTeam(team)
    ELSE NameOfTeam(team)

\* a result with its finish type
ResultRecorded(g) ==
    /\ g.score1 # None
    /\ g.score2 # None
    /\ g.status_suffix # None
    /\ g.status_suffix[1] # ""

ResultShown(g) ==
    IF ResultRecorded(g) THEN ScoreShown(g) \o g.status_suffix[1] \o ")" ELSE ""

\* C12 as the specification states it: the title of an undetermined playoff
\* slot is the phase label and the playoff index and names no team; the title
\* of a game with two known teams shows both teams with their flags, shows
\* "s1:s2 (" when the two scores are recorded, and does not contain the
\* phase-index label.
C12_GenericOrFlaggedTeams ==
    \A f \in Written :
       \A i \in Places(f) :
          /\ UndeterminedSlot(GameAt(f, i))
                => /\ EndsWith(TitleAt(f, i), PhaseIndexLabel(GameAt(f, i)))
                   /\ NoTeamNames(TitleAt(f, i), GameAt(f, i))
          /\ KnownTeams(GameAt(f, i))
                => /\ \A team \in {GameAt(f, i).team1, GameAt(f, i).team2} :
                         /\ team \in Flagged
                         /\ Contains(TitleAt(f, i),
                                     FlagOfTeam(team) \o " " \o NameOfTeam(team))
                   /\ (GameAt(f, i).score1 # None /\ GameAt(f, i).score2 # None)
                         => Contains(TitleAt(f, i), ScoreShown(GameAt(f, i)))
                   /\ ~Contains(TitleAt(f, i), PhaseIndexLabel(GameAt(f, i)))

\* C12: the title of an undetermined playoff slot is the icons, the phase
\* label and the playoff index, and names no team; the title of a game with
\* two known teams is the icons, the two teams, each with its flag when the
\* flag table has one, and "s1:s2 (suffix)" exactly when both scores and a
\* finish type are recorded, and it does not contain the phase-index label.
C12_GenericOrTeams ==
    \A f \in Written :
       \A i \in Places(f) :
          /\ UndeterminedSlot(GameAt(f, i))
                => /\ TitleAt(f, i)
                         = IconsOf(GameAt(f, i)) \o PhaseIndexLabel(GameAt(f, i))
                   /\ NoTeamNames(TitleAt(f, i), GameAt(f, i))
          /\ KnownTeams(GameAt(f, i))
                => /\ TitleAt(f, i)
                         = IconsOf(GameAt(f, i))
                             \o TeamShown(GameAt(f, i).team1) \o " - "
                             \o TeamShown(GameAt(f, i).team2)
                             \o ResultShown(GameAt(f, i))
                   /\ ~Contains(TitleAt(f, i), PhaseIndexLabel(GameAt(f, i)))

\* a calendar with the second undetermined slot of a phase, a game of known
\* teams with a recorded result, and a known team without a flag
C12_Witness ==
    \E f \in Written :
       \E i, j, k \in Places(f) :
          /\ UndeterminedSlot(GameAt(f, i))
          /\ GameAt(f, i).playoff_index = Some(2)
          /\ KnownTeams(GameAt(f, j))
          /\ ResultRecorded(GameAt(f, j))
          /\ KnownTeams(GameAt(f, k))
          /\ GameAt(f, k).team2 \notin Flagged

(***************************************************************************)
(* The current date of the table strategy.                                 *)
(***************************************************************************)
\* the rows the table loop can be handed: the first tr of a table and its
\* other rows
TableInputs ==
    {RowOf(head, head.header, TRUE) : head \in TableHeads}
        \cup {RowOf(head, texts, FALSE) : head \in TableHeads, texts \in TableRowTexts}

\* the date the date cell of a row states, or None
ExplicitDate(row) ==
    RawDate(CellOr(row.texts, TableColumns(row.header).date))

\* the rows the loop does not pass over
Counted(row) == ~TableRowSkipped(row.texts)

\* the text the time of a row is looked for in: its time cell, or the whole
\* row when it has no time cell or an empty one
TimeTextOf(row) ==
    IF CellOr(row.texts, TableColumns(row.header).time) # ""
    THEN CellOr(row.texts, TableColumns(row.header).time)
    ELSE Join(row.texts)

\* what each row states: whether it is the first tr of a table and whether
\* it is counted, its date, whether the row holds a time token, and whether
\* the text its time is looked for in holds one
RowFacts ==
    [row \in TableInputs |->
        [first   |-> row.first,
         counted |-> Counted(row),
         date    |-> ExplicitDate(row),
         time    |-> SearchTime(Join(row.texts)) # None,
         timed   |-> SearchTime(TimeTextOf(row)) # None]]

\* the first tr of the table that row n belongs to
TableOf(facts, n) == LastOf({m \in 1..n : facts[fed[m]].first})

\* the rows of the table of row n, up to row n, that state a date
DatedUpTo(facts, n) ==
    {m \in TableOf(facts, n)..n : facts[fed[m]].date # None}

\* those of them that are counted
CountedDatedUpTo(facts, n) ==
    {m \in DatedUpTo(facts, n) : facts[fed[m]].counted}

\* the games the row at place n of fed produced
GamesOfRow(n) == {k \in Emitted : origin[k] = n}

\* the date a row states, as a game carries it
DateStated(date) == DateOf(FixYear(date[1]))

\* every game of row n has the date of the last row of dated
HasDateOfLast(facts, n, dated) ==
    \A k \in GamesOfRow(n) :
       /\ dated # {}
       /\ DateOf(loop.games[k].start) = DateStated(facts[fed[LastOf(dated)]].date)

GameIffTimeAndDate(facts) ==
    \A n \in 1..Len(fed) :
       /\ GamesOfRow(n) # {} <=> (facts[fed[n]].time /\ DatedUpTo(facts, n) # {})
       /\ HasDateOfLast(facts, n, DatedUpTo(facts, n))

\* C13 as the specification states it: a row of a table produces a game if
\* and only if it contains a time token and a row of the same table, up to
\* this row, states a date; the game has the date of the last such row.
C13_GameIffTimeAndDate == strategy = "table" => GameIffTimeAndDate(RowFacts)

CarriedWithinTable(facts) ==
    \A n \in 1..Len(fed) :
       /\ Cardinality(GamesOfRow(n)) <= 1
       /\ GamesOfRow(n) # {}
             <=> /\ facts[fed[n]].counted
                 /\ facts[fed[n]].timed
                 /\ CountedDatedUpTo(facts, n) # {}
       /\ HasDateOfLast(facts, n, CountedDatedUpTo(facts, n))

\* C13: a row of a table produces a game, and then one game, if and only if
\* the row is counted (it is not empty and does not contain "schedule"), the
\* text its time is looked for in has a time token, and a counted row of the
\* same table, up to this row, states a date; the game has the date of the
\* last such row, so no date comes from an earlier table and no game comes
\* before the first counted dated row of its table.
C13_CarriedWithinTable == strategy = "table" => CarriedWithinTable(RowFacts)

\* a row without a date of its own has produced a game with the date of a
\* row before it
C13_Witness ==
    /\ strategy = "table"
    /\ \E n \in 1..Len(fed) :
          /\ ExplicitDate(fed[n]) = None
          /\ \E k \in GamesOfRow(n) :
                \E m \in 1..(n - 1) :
                   /\ ExplicitDate(fed[m]) # None
                   /\ DateOf(loop.games[k].start)
                         = DateStated(ExplicitDate(fed[m]))

(***************************************************************************)
(* The section context of the wikitext strategy.                           *)
(***************************************************************************)
\* a section heading of the markup
IsHeading(line) == StartsWith(line, "==")

\* the first line of the row that the separator at line i closes
RowStart(i) ==
    IF Separators(i - 1) = {} THEN 1 ELSE LastOf(Separators(i - 1)) + 1

\* the lines of that row that are not headings: the row's own lines
OwnLines(i) == {j \in RowStart(i)..(i - 1) : ~IsHeading(fed[j])}

\* the first of the row's own lines, or the separator when it has none
FirstOwnLine(i) ==
    IF OwnLines(i) = {} THEN i
    ELSE CHOOSE j \in OwnLines(i) : \A x \in OwnLines(i) : j <= x

\* update_context over the lines j..last handed to the loop
RECURSIVE ContextOver(_, _, _)
ContextOver(st, j, last) ==
    IF j > last THEN st
    ELSE ContextOver(update_context(st, fed[j]), j + 1, last)

\* the phase and the group the headings before the row's own lines give
ContextBefore(i) == ContextOver(WikitextStart, 1, FirstOwnLine(i) - 1)

\* C14: every game of the wikitext strategy carries the phase and the group
\* of the section headings that precede the own lines of its row; a heading
\* between the row's own lines and the separator that closes the row does
\* not change them.
C14_HeadingBeforeRow ==
    strategy = "wikitext" =>
       \A k \in Emitted :
          /\ loop.games[k].phase_key = ContextBefore(origin[k]).current_phase
          /\ loop.games[k].group_label = ContextBefore(origin[k]).current_group

(***************************************************************************)
(* The game lines of the text strategy.                                    *)
(***************************************************************************)
\* C15: a line of the text strategy that mentions a single team produces no
\* game: no game of the strategy has the same team twice, but for the
\* placeholder TBD.
C15_TwoMentions ==
    strategy = "text" =>
       \A k \in Emitted :
          loop.games[k].team1 = loop.games[k].team2 => loop.games[k].team1 = "TBD"

=============================================================================
